---------------------------- MODULE Spec2Model ----------------------------
(***************************************************************************)
(* A model of the Game Boy emulator core: the memory bus with its          *)
(* memory-mapped LCD and interrupt registers, the instruction decoder, the *)
(* CPU's tick (fetch, interrupt dispatch, execute), the PPU's mode state   *)
(* machine, and the emulator thread's double-buffered hand-off of frames   *)
(* to the renderer thread.                                                 *)
(*                                                                         *)
(* Bytes are naturals below 256 and words naturals below 65536; every      *)
(* wrapping operation of the source is written with its modulus.  A read   *)
(* that aborts the program (unimplemented!, panic!, index out of range)    *)
(* yields the marker PANIC, and an operation that aborts sets the "panic"  *)
(* field of its result.                                                    *)
(***************************************************************************)
EXTENDS Integers, Sequences, FiniteSets, TLC

VARIABLES
    cpu,          \* CPU: registers, SP, PC, stop, halted, IME
    bus,          \* MemoryBus: program, RAM regions, lcd, interrupts
    ppu,          \* PPU: updated, mode_clock, mode, hblanking
    buffers,      \* DoubleBuffer.buffers: the two frame buffers
    curr_buffer,  \* DoubleBuffer.curr_buffer: the atomic index
    holder,       \* who holds each buffer's Mutex: "none", "emu" or "render"
    poisoned,     \* whether each buffer's Mutex is poisoned
    emu,          \* the emulator thread: its position and locals
    rend,         \* the renderer thread: its position and locals
    build,        \* "debug" (arithmetic overflow aborts) or "release" (it wraps)
    last,         \* what the last CPU.tick saw and returned
    hist          \* counters of what has happened so far

vars == <<cpu, bus, ppu, buffers, curr_buffer, holder, poisoned, emu, rend,
          build, last, hist>>

-----------------------------------------------------------------------------
(* Bit operations on naturals (the bit_field crate and the u8 operators).  *)

PANIC == 0 - 1

Pow2(n) == 2 ^ n

\* BitField::get_bit
get_bit(v, n) == ((v \div Pow2(n)) % 2) = 1

\* BitField::get_bits(lo..hi)
get_bits(v, lo, hi) == (v \div Pow2(lo)) % Pow2(hi - lo)

\* BitField::set_bit
set_bit(v, n, value) ==
    IF value
    THEN (IF get_bit(v, n) THEN v ELSE v + Pow2(n))
    ELSE (IF get_bit(v, n) THEN v - Pow2(n) ELSE v)

RECURSIVE BitAndUpTo(_, _, _)
BitAndUpTo(a, b, n) ==
    IF n < 0 THEN 0
    ELSE (IF get_bit(a, n) /\ get_bit(b, n) THEN Pow2(n) ELSE 0) + BitAndUpTo(a, b, n - 1)

\* the u8 operator &
BitAnd(a, b) == BitAndUpTo(a, b, 7)

\* the index of the highest set bit of a byte (8 for the byte 0)
RECURSIVE LeadingFrom(_, _)
LeadingFrom(v, n) == IF n < 0 THEN 8 ELSE IF get_bit(v, n) THEN n ELSE LeadingFrom(v, n - 1)

highest_set_bit(v) == LeadingFrom(v, 7)

\* u8::trailing_zeros (8 for the byte 0)
RECURSIVE TrailingFrom(_, _)
TrailingFrom(v, n) == IF n >= 8 \/ get_bit(v, n) THEN n ELSE TrailingFrom(v, n + 1)

trailing_zeros(v) == TrailingFrom(v, 0)

\* a sparse array: the entries that are not zero
Rd(m, i) == IF i \in DOMAIN m THEN m[i] ELSE 0

Wr(m, i, v) ==
    [x \in (IF v = 0 THEN DOMAIN m \ {i} ELSE DOMAIN m \cup {i}) |->
        IF x = i THEN v ELSE m[x]]

Empty == [x \in {} |-> 0]

-----------------------------------------------------------------------------
(* The memory bus.  Each RAM region is a sparse array indexed by the       *)
(* offset into the region.  The bus lives on the emulator thread alone, so *)
(* the try_lock and try_borrow of every access succeed.  The ROM image is  *)
(* a full 32 KiB image: reads of 0x0000..0x7FFF are always in range.       *)

LCDC == 65344
SCROLL_Y == 65346
SCROLL_X == 65347
LCD_Y == 65348
PALLETE == 65351
IF_REG == 65295
IE_REG == 65535

GAMEBOY_WIDTH == 160
GAMEBOY_HEIGHT == 144

Lines == 0 .. 4

\* impl Default for LCD
LCD_default ==
    [lcd_control |-> 128, scroll_y |-> 0, scroll_x |-> 0, lcd_y |-> 0, lcd_y_cmp |-> 0,
     background_pallete |-> 0, window_y |-> 0, window_x |-> 0]

\* #[derive(Default)] for Interrupts: every line disabled and not requested
Interrupts_default ==
    [enabled |-> [i \in Lines |-> FALSE], requested |-> [i \in Lines |-> FALSE]]

\* a register byte whose bits above n read as 1
RECURSIVE PackBitsBelow(_, _)
PackBitsBelow(f, n) ==
    IF n < 0 THEN 0 ELSE (IF f[n] THEN Pow2(n) ELSE 0) + PackBitsBelow(f, n - 1)

PackBitsHighSet(f, n) == PackBitsBelow(f, n) + 256 - Pow2(n + 1)

\* the byte of the flags f[0] .. f[n]: the getters build it bit by bit from 0
RECURSIVE PackBits(_, _)
PackBits(f, n) ==
    IF n < 0 THEN 0 ELSE (IF f[n] THEN Pow2(n) ELSE 0) + PackBits(f, n - 1)

get_interrupt_enable(ints) == PackBits(ints.enabled, 4)

set_interrupt_enable(ints, byte) ==
    [ints EXCEPT !.enabled = [i \in Lines |-> get_bit(byte, i)]]

get_interrupt_flag(ints) == PackBits(ints.requested, 4)

set_interrupt_flag(ints, byte) ==
    [ints EXCEPT !.requested = [i \in Lines |-> get_bit(byte, i)]]

\* MemoryBus::new
MemoryBus_new(rom) ==
    [program |-> rom, wram1 |-> Empty, wram2 |-> Empty, vram |-> Empty, oam |-> Empty,
     hram |-> Empty, lcd |-> LCD_default, interrupts |-> Interrupts_default]

get_u8(b, addr) ==
    CASE addr \in 0 .. 32767 -> Rd(b.program, addr)
      [] addr \in 32768 .. 40959 -> Rd(b.vram, addr - 32768)
      [] addr \in 49152 .. 53247 -> Rd(b.wram1, addr - 49152)
      [] addr \in 53248 .. 57343 -> Rd(b.wram2, addr - 53248)
      [] addr \in 65024 .. 65183 -> Rd(b.oam, addr - 65024)
      [] addr \in 65344 .. 65355 ->
            CASE addr = LCDC -> b.lcd.lcd_control
              [] addr = SCROLL_Y -> b.lcd.scroll_y
              [] addr = SCROLL_X -> b.lcd.scroll_x
              [] addr = LCD_Y -> b.lcd.lcd_y
              [] addr = 65349 -> b.lcd.lcd_y_cmp
              [] addr = PALLETE -> b.lcd.background_pallete
              [] addr = 65354 -> b.lcd.window_y
              [] addr = 65355 -> b.lcd.window_x
              [] OTHER -> PANIC
      [] addr = IF_REG -> get_interrupt_flag(b.interrupts)
      [] addr = IE_REG -> get_interrupt_enable(b.interrupts)
      [] addr \in 65280 .. 65407 /\ addr # IF_REG /\ addr \notin 65344 .. 65355 -> 0
      [] addr \in 65408 .. 65534 -> Rd(b.hram, addr - 65408)
      [] OTHER -> PANIC

\* a write to LCDC that leaves the line counter alone
write_lcd_control_keeping_ly(b, byte) == [b EXCEPT !.lcd.lcd_control = byte]

\* write_u8's LCDC arm: switching the LCD off resets the line counter
write_lcd_control(b, byte) ==
    [b EXCEPT !.lcd.lcd_control = byte,
              !.lcd.lcd_y = IF get_bit(byte, 7) THEN @ ELSE 0]

\* whether write_u8 aborts: the addresses that reach its last arm
WritePanics(addr) == addr \in 40960 .. 49151 \/ addr \in 57344 .. 65023

write_u8(b, addr, byte) ==
    CASE addr \in 0 .. 32767 -> b
      [] addr \in 32768 .. 40959 -> [b EXCEPT !.vram = Wr(@, addr - 32768, byte)]
      [] addr \in 49152 .. 53247 -> [b EXCEPT !.wram1 = Wr(@, addr - 49152, byte)]
      [] addr \in 53248 .. 57343 -> [b EXCEPT !.wram2 = Wr(@, addr - 53248, byte)]
      [] addr \in 65024 .. 65183 -> [b EXCEPT !.oam = Wr(@, addr - 65024, byte)]
      [] addr \in 65184 .. 65279 -> b
      [] addr \in 65344 .. 65355 ->
            CASE addr = LCDC -> write_lcd_control(b, byte)
              [] addr = SCROLL_Y -> [b EXCEPT !.lcd.scroll_y = byte]
              [] addr = SCROLL_X -> [b EXCEPT !.lcd.scroll_x = byte]
              [] addr = LCD_Y -> [b EXCEPT !.lcd.lcd_y = byte]
              [] addr = 65349 -> [b EXCEPT !.lcd.lcd_y_cmp = byte]
              [] addr = PALLETE -> [b EXCEPT !.lcd.background_pallete = byte]
              [] addr = 65354 -> [b EXCEPT !.lcd.window_y = byte]
              [] addr = 65355 -> [b EXCEPT !.lcd.window_x = byte]
              [] OTHER -> b
      [] addr = IF_REG -> [b EXCEPT !.interrupts = set_interrupt_flag(@, byte)]
      [] addr = IE_REG -> [b EXCEPT !.interrupts = set_interrupt_enable(@, byte)]
      [] addr \in 65280 .. 65407 /\ addr # IF_REG /\ addr \notin 65344 .. 65355 -> b
      [] addr \in 65408 .. 65534 -> [b EXCEPT !.hram = Wr(@, addr - 65408, byte)]
      [] OTHER -> b

\* MemoryBus::request_interrupt (line: 0 VBlank, 1 LCDStat, 2 Timer, 3 Serial, 4 Joypad)
request_interrupt(b, line) == [b EXCEPT !.interrupts.requested[line] = TRUE]

\* get_instr: addr + 1, addr + 2, addr + 3 are u16 additions; past 0xFFFF they
\* abort a debug build and wrap in a release build
get_instr(b, addr, bld) ==
    IF addr + 3 > 65535 /\ bld = "debug" THEN <<PANIC, PANIC, PANIC, PANIC>>
    ELSE [i \in 1 .. 4 |-> get_u8(b, (addr + i - 1) % 65536)]

\* write_stack: the stack pointer moves down, then the byte is stored
write_stack(m, byte) ==
    LET sp == (m.sp + 65535) % 65536 IN
    IF m.panic THEN m
    ELSE [sp |-> sp, bus |-> write_u8(m.bus, sp, byte), panic |-> WritePanics(sp)]

\* write_stack_16: the low byte goes first (to sp-1), the high byte second (to sp-2)
write_stack_16(b, sp, word) ==
    write_stack(write_stack([sp |-> sp, bus |-> b, panic |-> FALSE],
                            get_bits(word, 0, 8)),
                get_bits(word, 8, 16))

\* get_stack_16: the first byte read (at sp) is the upper one, the second the lower
stack_word(sp, upper, lower) ==
    [sp |-> (sp + 2) % 65536,
     word |-> IF upper = PANIC \/ lower = PANIC THEN PANIC ELSE upper * 256 + lower,
     panic |-> upper = PANIC \/ lower = PANIC]

\* a get_stack_16 that takes the first byte read as the lower one
get_stack_16_lower_first(b, sp) ==
    stack_word(sp, get_u8(b, (sp + 1) % 65536), get_u8(b, sp))

get_stack_16(b, sp) == stack_word(sp, get_u8(b, sp), get_u8(b, (sp + 1) % 65536))

-----------------------------------------------------------------------------
(* Instructions and the decoder.  An instruction is its variant's name and *)
(* up to two operands; register, condition and operation selectors are the *)
(* numbers their From<u8> conversions take.                                *)

Instr(op, a, b) == [op |-> op, a |-> a, b |-> b]

\* a u16 read high byte first
be_u16(lo, hi) == hi + 256 * lo

\* nom's le_u16 and i8
le_u16(lo, hi) == lo + 256 * hi

i8(byte) == IF byte >= 128 THEN byte - 256 ELSE byte

\* a parse_prefixed_cb that takes the bit number from the low bits
parse_prefixed_cb_low_bits(opcode) ==
    Instr(<<"Bitwise", "Bit", "ResetBit", "SetBit">>[get_bits(opcode, 6, 8) + 1],
          get_bits(opcode, 0, 3), get_bits(opcode, 3, 6))

parse_prefixed_cb(opcode) ==
    LET p1 == get_bits(opcode, 0, 3)
        p2 == get_bits(opcode, 3, 6)
        p3 == get_bits(opcode, 6, 8)
    IN  IF p3 = 0 THEN Instr("Bitwise", p2, p1)
        ELSE IF p3 = 1 THEN Instr("Bit", p2, p1)
        ELSE IF p3 = 2 THEN Instr("ResetBit", p2, p1)
        ELSE Instr("SetBit", p2, p1)

\* block 00 of Instruction::parse
parse_block0(p2, p1, rest) ==
    IF p1 = 0 THEN
        (IF p2 = 0 THEN Instr("Nop", 0, 0)
         ELSE IF p2 = 1 THEN Instr("LoadSP", le_u16(rest[1], rest[2]), 0)
         ELSE IF p2 = 2 THEN Instr("Stop", 0, 0)
         ELSE IF p2 = 3 THEN Instr("JumpRelative", i8(rest[1]), 0)
         ELSE Instr("JumpRelativeConditional", get_bits(p2, 0, 2), i8(rest[1])))
    ELSE IF p1 = 1 THEN
        (IF ~get_bit(p2, 0)
         THEN Instr("LoadImmediate16", get_bits(p2, 1, 3), le_u16(rest[1], rest[2]))
         ELSE Instr("AddHLRegister", get_bits(p2, 1, 3), 0))
    ELSE IF p1 = 2 THEN
        (IF ~get_bit(p2, 0)
         THEN Instr("LoadIndirectA", get_bits(p2, 1, 3), 0)
         ELSE Instr("LoadAIndirect", get_bits(p2, 1, 3), 0))
    ELSE IF p1 = 3 THEN
        (IF ~get_bit(p2, 0)
         THEN Instr("Increment16", get_bits(p2, 1, 3), 0)
         ELSE Instr("Decrement16", get_bits(p2, 1, 3), 0))
    ELSE IF p1 = 4 THEN Instr("Increment", p2, 0)
    ELSE IF p1 = 5 THEN Instr("Decrement", p2, 0)
    ELSE IF p1 = 6 THEN Instr("LoadImmediate", p2, rest[1])
    ELSE Instr("AccumulatorFlag", p2, 0)

\* block 11 of Instruction::parse; its last arm is the one that aborts
parse_block3(p2, p1, rest) ==
    IF p1 = 0 THEN
        (IF ~get_bit(p2, 2) THEN Instr("RetConditional", get_bits(p2, 0, 2), 0)
         ELSE IF p2 = 4 THEN Instr("LoadHighPageA", rest[1], 0)
         ELSE IF p2 = 5 THEN Instr("AddSp", i8(rest[1]), 0)
         ELSE IF p2 = 6 THEN Instr("LoadAHighPage", rest[1], 0)
         ELSE Instr("LoadHLSP", i8(rest[1]), 0))
    ELSE IF p1 = 1 THEN
        (IF ~get_bit(p2, 0) THEN Instr("Pop", get_bits(p2, 1, 3), 0)
         ELSE IF get_bits(p2, 1, 3) = 0 THEN Instr("Ret", 0, 0)
         ELSE IF get_bits(p2, 1, 3) = 1 THEN Instr("RetInterrupt", 0, 0)
         ELSE IF get_bits(p2, 1, 3) = 2 THEN Instr("JumpHL", 0, 0)
         ELSE Instr("LoadSPHL", 0, 0))
    ELSE IF p1 = 2 THEN
        (IF ~get_bit(p2, 2)
         THEN Instr("JumpConditional", get_bits(p2, 0, 2), le_u16(rest[1], rest[2]))
         ELSE IF p2 = 4 THEN Instr("LoadHighPageIndirectA", 0, 0)
         ELSE IF p2 = 5 THEN Instr("LoadIndirectImmediateA", le_u16(rest[1], rest[2]), 0)
         ELSE IF p2 = 6 THEN Instr("LoadAHighPageIndirect", 0, 0)
         ELSE Instr("LoadAIndirectImmediate", le_u16(rest[1], rest[2]), 0))
    ELSE IF p1 = 3 THEN
        (IF p2 = 0 THEN Instr("Jump", le_u16(rest[1], rest[2]), 0)
         ELSE IF p2 = 1 THEN parse_prefixed_cb(rest[1])
         ELSE IF p2 = 6 THEN Instr("DisableInterrupts", 0, 0)
         ELSE IF p2 = 7 THEN Instr("EnableInterrupts", 0, 0)
         ELSE Instr("Illegal", 0, 0))
    ELSE IF p1 = 4 THEN
        (IF ~get_bit(p2, 2)
         THEN Instr("CallConditional", get_bits(p2, 0, 2), le_u16(rest[1], rest[2]))
         ELSE Instr("Illegal", 0, 0))
    ELSE IF p1 = 5 THEN
        (IF p2 = 1 THEN Instr("Call", le_u16(rest[1], rest[2]), 0)
         ELSE IF ~get_bit(p2, 0) THEN Instr("Push", get_bits(p2, 1, 3), 0)
         ELSE Instr("Illegal", 0, 0))
    ELSE IF p1 = 6 THEN Instr("AluImmediate", p2, rest[1])
    ELSE Instr("Reset", p2, 0)

\* a block 01 without the HALT arm
parse_block1_loads_only(p2, p1) == Instr("Load", p2, p1)

\* block 01 of Instruction::parse: the HALT arm comes before the load arm
parse_block1(p2, p1) ==
    IF p2 = 6 /\ p1 = 6 THEN Instr("Halt", 0, 0) ELSE Instr("Load", p2, p1)

\* Instruction::parse on the bytes read at PC; "Illegal" is the arm that ends in
\* unimplemented!()
parse(input) ==
    LET opcode == input[1]
        rest == <<input[2], input[3], input[4]>>
        p1 == get_bits(opcode, 0, 3)
        p2 == get_bits(opcode, 3, 6)
        p3 == get_bits(opcode, 6, 8)
    IN  IF p3 = 0 THEN parse_block0(p2, p1, rest)
        ELSE IF p3 = 1 THEN parse_block1(p2, p1)
        ELSE IF p3 = 2 THEN Instr("Alu", p2, p1)
        ELSE parse_block3(p2, p1, rest)

\* the bytes the arms of block 00 take from the input: the opcode, and what
\* the arm reads with le_u16 (two bytes), u8 or i8 (one byte)
taken_block0(p2, p1) ==
    IF p1 = 0 THEN
        (IF p2 = 0 THEN 1
         ELSE IF p2 = 1 THEN 3
         ELSE IF p2 = 2 THEN 1
         ELSE 2)
    ELSE IF p1 = 1 THEN (IF ~get_bit(p2, 0) THEN 3 ELSE 1)
    ELSE IF p1 = 6 THEN 2
    ELSE 1

\* the same for block 11
taken_block3(p2, p1) ==
    IF p1 = 0 THEN (IF ~get_bit(p2, 2) THEN 1 ELSE 2)
    ELSE IF p1 = 1 THEN 1
    ELSE IF p1 = 2 THEN (IF ~get_bit(p2, 2) \/ p2 = 5 \/ p2 = 7 THEN 3 ELSE 1)
    ELSE IF p1 = 3 THEN (IF p2 = 0 THEN 3 ELSE IF p2 = 1 THEN 2 ELSE 1)
    ELSE IF p1 = 4 THEN 3
    ELSE IF p1 = 5 THEN (IF p2 = 1 THEN 3 ELSE 1)
    ELSE IF p1 = 6 THEN 2
    ELSE 1

\* the bytes Instruction::parse takes from its input when it returns Ok
taken(input) ==
    IF get_bits(input[1], 6, 8) = 0
    THEN taken_block0(get_bits(input[1], 3, 6), get_bits(input[1], 0, 3))
    ELSE IF get_bits(input[1], 6, 8) = 3
    THEN taken_block3(get_bits(input[1], 3, 6), get_bits(input[1], 0, 3))
    ELSE 1

byte_len(instr) ==
    IF instr.op \in {"LoadSP", "LoadImmediate16", "JumpConditional",
                     "LoadIndirectImmediateA", "LoadAIndirectImmediate", "Jump",
                     "CallConditional", "Call"} THEN 3
    ELSE IF instr.op \in {"Stop", "JumpRelative", "JumpRelativeConditional",
                          "LoadImmediate", "LoadHighPageA", "AddSp", "LoadAHighPage",
                          "LoadHLSP", "AluImmediate", "Bitwise", "Bit", "ResetBit",
                          "SetBit"} THEN 2
    ELSE 1

\* Instruction::ticks, the M-cycle cost table (register selector 6 is (HL))
ticks(instr, action_taken) ==
    LET op == instr.op IN
    CASE op \in {"Nop", "Halt", "Stop", "DisableInterrupts", "EnableInterrupts",
                 "AccumulatorFlag", "JumpHL"} -> 1
      [] op = "Load" -> IF instr.a = 6 \/ instr.b = 6 THEN 2 ELSE 1
      [] op = "LoadImmediate" -> IF instr.a = 6 THEN 3 ELSE 2
      [] op \in {"LoadImmediate16", "JumpRelative", "Pop", "LoadHighPageA",
                 "LoadAHighPage", "LoadHLSP"} -> 3
      [] op \in {"AddHLRegister", "Increment16", "Decrement16", "LoadIndirectA",
                 "LoadAIndirect", "AluImmediate", "LoadHighPageIndirectA",
                 "LoadAHighPageIndirect", "LoadSPHL"} -> 2
      [] op \in {"Increment", "Decrement"} -> IF instr.a = 6 THEN 3 ELSE 1
      [] op = "Alu" -> IF instr.b = 6 THEN 2 ELSE 1
      [] op = "JumpRelativeConditional" -> IF action_taken THEN 3 ELSE 2
      [] op \in {"Jump", "Ret", "RetInterrupt", "Reset", "Push",
                 "LoadIndirectImmediateA", "LoadAIndirectImmediate", "AddSp"} -> 4
      [] op = "JumpConditional" -> IF action_taken THEN 4 ELSE 3
      [] op = "Call" -> 6
      [] op = "CallConditional" -> IF action_taken THEN 6 ELSE 3
      [] op = "RetConditional" -> IF action_taken THEN 5 ELSE 2
      [] op = "LoadSP" -> 5
      [] op = "Bit" -> IF instr.b = 6 THEN 3 ELSE 2
      [] op \in {"Bitwise", "ResetBit", "SetBit"} -> IF instr.b = 6 THEN 4 ELSE 2

-----------------------------------------------------------------------------
(* The CPU.  Every operation that can abort returns a record with a        *)
(* "panic" field; once it is set the rest of the record is of no interest. *)

\* impl Default for CPU
CPU_default ==
    [Accumulator |-> 0, Flags |-> 0, B |-> 0, C |-> 0, D |-> 0, E |-> 0, H |-> 0, L |-> 0,
     SP |-> 0, PC |-> 256, stop |-> FALSE, halted |-> FALSE, IME |-> FALSE]

get_af(c) == c.Accumulator * 256 + c.Flags

get_bc(c) == c.B * 256 + c.C

get_de(c) == c.D * 256 + c.E

get_hl(c) == c.H * 256 + c.L

\* the bit of Flags that holds each Flag
FlagBit(flag) == CASE flag = "Z" -> 7 [] flag = "N" -> 6 [] flag = "H" -> 5 [] flag = "C" -> 4

set_flag(c, flag, value) == [c EXCEPT !.Flags = set_bit(@, FlagBit(flag), value)]

get_flag(c, flag) == get_bit(c.Flags, FlagBit(flag))

\* the field of the CPU a Register8 names (IndirectHL names none)
Reg8Field(r) == <<"B", "C", "D", "E", "H", "L", "none", "Accumulator">>[r + 1]

read_register(c, b, r) == IF r = 6 THEN get_u8(b, get_hl(c)) ELSE c[Reg8Field(r)]

write_register_immediate(c, b, r, immediate) ==
    IF r = 6
    THEN [cpu |-> c, bus |-> write_u8(b, get_hl(c), immediate),
          action_taken |-> FALSE, panic |-> WritePanics(get_hl(c))]
    ELSE [cpu |-> [c EXCEPT ![Reg8Field(r)] = immediate], bus |-> b,
          action_taken |-> FALSE, panic |-> FALSE]

\* write_register: the byte read from the source register goes to the target
written(c, b, target, read) ==
    IF read = PANIC THEN [cpu |-> c, bus |-> b, action_taken |-> FALSE, panic |-> TRUE]
    ELSE write_register_immediate(c, b, target, read)

write_register(c, b, target, source) == written(c, b, target, read_register(c, b, source))

\* get_indirect: the address, and the CPU after HLI/HLD have moved HL
get_indirect(c, r) ==
    LET addr == get_hl(c)
        addr1 == IF r = 2 THEN (addr + 1) % 65536 ELSE (addr + 65535) % 65536
    IN  IF r = 0 THEN [addr |-> get_bc(c), cpu |-> c]
        ELSE IF r = 1 THEN [addr |-> get_de(c), cpu |-> c]
        ELSE [addr |-> addr,
              cpu |-> [c EXCEPT !.H = get_bits(addr1, 8, 16), !.L = get_bits(addr1, 0, 8)]]

\* Condition evaluated on the flags
check_condition(c, condition) ==
    CASE condition = 0 -> ~get_flag(c, "Z")
      [] condition = 1 -> get_flag(c, "Z")
      [] condition = 2 -> ~get_flag(c, "C")
      [] condition = 3 -> get_flag(c, "C")

\* Instruction::parse on the bytes fetched (none, if the fetch itself aborted)
decode(bytes) ==
    IF \E i \in 1 .. 4 : bytes[i] = PANIC THEN Instr("Illegal", 0, 0) ELSE parse(bytes)

\* the CPU moved past the instruction decoded; expect aborts on a parse error
fetched(c, instr) ==
    [cpu |-> [c EXCEPT !.PC = (@ + byte_len(instr)) % 65536],
     instr |-> instr,
     panic |-> instr.op = "Illegal"]

\* next_instruction: fetch four bytes at PC, decode, move PC past the instruction
next_instruction(c, b, bld) == fetched(c, decode(get_instr(b, c.PC, bld)))

\* handle_interrupt returning 0: ret is the value returned, pushed the word
\* handed to write_stack_16 (PANIC when nothing was pushed)
NotDispatched(c, b) == [cpu |-> c, bus |-> b, ret |-> 0, pushed |-> PANIC, panic |-> FALSE]

\* a dispatch that leaves IME set
vectored_keeping_ime(c, n, st) ==
    [cpu |-> [c EXCEPT !.halted = FALSE, !.SP = st.sp, !.PC = 64 + n * 8],
     bus |-> st.bus, ret |-> 4, pushed |-> c.PC, panic |-> st.panic]

\* the end of handle_interrupt: st is what write_stack_16 left of SP and the bus
vectored(c, n, st) ==
    [cpu |-> [c EXCEPT !.halted = FALSE, !.IME = FALSE, !.SP = st.sp, !.PC = 64 + n * 8],
     bus |-> st.bus, ret |-> 4, pushed |-> c.PC, panic |-> st.panic]

\* handle_interrupt once IF and triggered = IF & IE have been read
service(c, b, interrupts_requested, triggered) ==
    IF triggered = 0 THEN NotDispatched(c, b)
    ELSE IF ~c.IME THEN NotDispatched([c EXCEPT !.halted = FALSE], b)
    ELSE IF trailing_zeros(triggered) >= 5
    THEN [cpu |-> [c EXCEPT !.halted = FALSE, !.IME = FALSE], bus |-> b, ret |-> 0,
          pushed |-> PANIC, panic |-> TRUE]
    ELSE vectored(c, trailing_zeros(triggered),
                  write_stack_16(write_u8(b, IF_REG,
                                          set_bit(interrupts_requested,
                                                  trailing_zeros(triggered), FALSE)),
                                 c.SP, c.PC))

\* a handle_interrupt that leaves a halted CPU halted when IME is clear
handle_interrupt_ime_only(c, b) ==
    IF ~c.IME THEN NotDispatched(c, b)
    ELSE service(c, b, get_u8(b, IF_REG), BitAnd(get_u8(b, IF_REG), get_u8(b, IE_REG)))

handle_interrupt(c, b) ==
    IF ~c.IME /\ ~c.halted THEN NotDispatched(c, b)
    ELSE service(c, b, get_u8(b, IF_REG), BitAnd(get_u8(b, IF_REG), get_u8(b, IE_REG)))

-----------------------------------------------------------------------------
(* The ALU.  Each operation returns the CPU with its flags updated and the *)
(* byte computed.                                                          *)

RECURSIVE BitOrUpTo(_, _, _)
BitOrUpTo(a, b, n) ==
    IF n < 0 THEN 0
    ELSE (IF get_bit(a, n) \/ get_bit(b, n) THEN Pow2(n) ELSE 0) + BitOrUpTo(a, b, n - 1)

\* the u8 operator |
BitOr(a, b) == BitOrUpTo(a, b, 7)

RECURSIVE BitXorUpTo(_, _, _)
BitXorUpTo(a, b, n) ==
    IF n < 0 THEN 0
    ELSE (IF get_bit(a, n) # get_bit(b, n) THEN Pow2(n) ELSE 0) + BitXorUpTo(a, b, n - 1)

\* the u8 operator ^
BitXor(a, b) == BitXorUpTo(a, b, 7)

AluResult(c, value) == [cpu |-> c, value |-> value]

add(c, value) ==
    LET new_value == (c.Accumulator + value) % 256
        did_overflow == c.Accumulator + value > 255
    IN  AluResult(set_flag(set_flag(set_flag(set_flag(c, "Z", new_value = 0), "N", FALSE),
                                    "C", did_overflow),
                           "H", (c.Accumulator % 16) + (value % 16) > 15),
                  new_value)

sub(c, value) ==
    LET new_value == (c.Accumulator + 256 - value) % 256
        did_overflow == c.Accumulator < value
    IN  AluResult(set_flag(set_flag(set_flag(set_flag(c, "Z", new_value = 0), "N", TRUE),
                                    "H", (c.Accumulator % 16) < (value % 16)),
                           "C", did_overflow),
                  new_value)

\* and, or, xor: Z from the result, N clear, H as given, C clear
logic_flags(c, new_value, half) ==
    AluResult(set_flag(set_flag(set_flag(set_flag(c, "Z", new_value = 0), "N", FALSE),
                                "H", half),
                       "C", FALSE),
              new_value)

and(c, value) == logic_flags(c, BitAnd(c.Accumulator, value), TRUE)

or(c, value) == logic_flags(c, BitOr(c.Accumulator, value), FALSE)

xor(c, value) == logic_flags(c, BitXor(c.Accumulator, value), FALSE)

\* the result stored into the accumulator
StoreA(r) == [r.cpu EXCEPT !.Accumulator = r.value]

handle_op(c, op, value) ==
    CASE op = 0 -> StoreA(add(c, value))
      [] op = 1 -> StoreA(add(StoreA(add(c, IF get_flag(c, "C") THEN 1 ELSE 0)), value))
      [] op = 2 -> StoreA(sub(c, value))
      [] op = 3 -> StoreA(sub(StoreA(sub(c, IF get_flag(c, "C") THEN 1 ELSE 0)), value))
      [] op = 4 -> StoreA(and(c, value))
      [] op = 5 -> StoreA(xor(c, value))
      [] op = 6 -> StoreA(or(c, value))
      [] op = 7 -> sub(c, value).cpu

sr_flag_update(c, carry, new_value) ==
    AluResult(set_flag(set_flag(set_flag(set_flag(c, "H", FALSE), "N", FALSE),
                                "Z", new_value = 0),
                       "C", carry),
              new_value)

rotate_right(c, value) ==
    sr_flag_update(c, get_bit(value, 0),
                   set_bit(value \div 2, 7, get_flag(c, "C") \/ get_bit(value \div 2, 7)))

rotate_right_carry(c, value) ==
    sr_flag_update(c, get_bit(value, 0),
                   set_bit(value \div 2, 7, get_bit(value, 0) \/ get_bit(value \div 2, 7)))

rotate_left(c, value) ==
    sr_flag_update(c, get_bit(value, 7),
                   set_bit((value * 2) % 256, 0, get_flag(c, "C")))

rotate_left_carry(c, value) ==
    sr_flag_update(c, get_bit(value, 7),
                   set_bit((value * 2) % 256, 0, get_bit(value, 7)))

shift_left_arithmetic(c, value) ==
    sr_flag_update(c, get_bit(value, 7), (value * 2) % 256)

\* a right shift that clears bit 7
shift_right_arithmetic_unsigned(c, value) ==
    sr_flag_update(c, get_bit(value, 0), value \div 2)

shift_right_arithmetic(c, value) ==
    sr_flag_update(c, get_bit(value, 0),
                   (value \div 2) + (IF get_bit(value, 7) THEN 128 ELSE 0))

swap_nibble(c, value) ==
    sr_flag_update(c, FALSE, (value \div 16) + (value % 16) * 16)

shift_right_logical(c, value) ==
    sr_flag_update(c, get_bit(value, 0), value \div 2)

\* the rotate or shift of handle_bitwise
bitwise(c, op, value) ==
    CASE op = 0 -> rotate_left_carry(c, value)
      [] op = 1 -> rotate_right_carry(c, value)
      [] op = 2 -> rotate_left(c, value)
      [] op = 3 -> rotate_right(c, value)
      [] op = 4 -> shift_left_arithmetic(c, value)
      [] op = 5 -> shift_right_arithmetic(c, value)
      [] op = 6 -> swap_nibble(c, value)
      [] op = 7 -> shift_right_logical(c, value)

\* the result r of an ALU operation written back to the register
write_back(b, register, r) == write_register_immediate(r.cpu, b, register, r.value)

bitwise_on(c, b, op, register, value) ==
    IF value = PANIC THEN [cpu |-> c, bus |-> b, action_taken |-> FALSE, panic |-> TRUE]
    ELSE write_back(b, register, bitwise(c, op, value))

handle_bitwise(c, b, op, register) ==
    bitwise_on(c, b, op, register, read_register(c, b, register))

\* increment_16 and decrement_16 on an upper/lower pair, as the pair's new word
increment_16(upper, lower) == (upper * 256 + lower + 1) % 65536

decrement_16(upper, lower) == (upper * 256 + lower + 65535) % 65536

\* write_16 into the two fields hi and lo of the CPU
write_16(c, hi, lo, value) ==
    [c EXCEPT ![hi] = get_bits(value, 8, 16), ![lo] = get_bits(value, 0, 8)]

\* add_rel: rel.wrapping_abs() as u16 is 0xFF80 for rel = -128
add_rel(addr, rel) ==
    IF rel < 0
    THEN (addr + 65536 - (IF rel = 0 - 128 THEN 65408 ELSE 0 - rel)) % 65536
    ELSE (addr + rel) % 65536

-----------------------------------------------------------------------------
(* CPU::tick.                                                              *)

Done(c, b) == [cpu |-> c, bus |-> b, action_taken |-> FALSE, panic |-> FALSE]

Taken(c, b) == [cpu |-> c, bus |-> b, action_taken |-> TRUE, panic |-> FALSE]

Abort(c, b) == [cpu |-> c, bus |-> b, action_taken |-> FALSE, panic |-> TRUE]

\* a store through the bus
Store(c, b, addr, byte) ==
    IF byte = PANIC \/ WritePanics(addr) THEN Abort(c, b) ELSE Done(c, write_u8(b, addr, byte))

\* a load into the accumulator
loaded(c, b, byte) ==
    IF byte = PANIC THEN Abort(c, b) ELSE Done([c EXCEPT !.Accumulator = byte], b)

LoadA(c, b, addr) == loaded(c, b, get_u8(b, addr))

\* the upper and lower fields of a 16-bit register pair
PairFields(r) == <<<<"B", "C">>, <<"D", "E">>, <<"H", "L">>, <<"Accumulator", "Flags">>>>[r + 1]

PairValue(c, r) == c[PairFields(r)[1]] * 256 + c[PairFields(r)[2]]

\* push of a word: st is what write_stack_16 left
pushed_to(c, b, st, target) ==
    IF st.panic THEN Abort(c, b) ELSE Done([c EXCEPT !.SP = st.sp, !.PC = target], st.bus)

Push16(c, b, word, target) == pushed_to(c, b, write_stack_16(b, c.SP, word), target)

\* return through a popped word: st is what get_stack_16 gave
popped_to(c, b, st, ime) ==
    IF st.panic THEN Abort(c, b) ELSE Done([c EXCEPT !.SP = st.sp, !.PC = st.word, !.IME = ime], b)

PopPC(c, b, ime) == popped_to(c, b, get_stack_16(b, c.SP), ime)

\* POP rr: st is what get_stack_16 gave
popped_pair(c, b, st, hi, lo) ==
    IF st.panic THEN Abort(c, b) ELSE Done(write_16([c EXCEPT !.SP = st.sp], hi, lo, st.word), b)

\* the arms of tick's match for the accumulator and flag operations
AccumulatorFlag(c, b, af_op) ==
    CASE af_op = 0 -> Done(StoreA(rotate_left_carry(c, c.Accumulator)), b)
      [] af_op = 1 -> Done(StoreA(rotate_right_carry(c, c.Accumulator)), b)
      [] af_op = 2 -> Done(StoreA(rotate_left(c, c.Accumulator)), b)
      [] af_op = 3 -> Done(StoreA(rotate_right(c, c.Accumulator)), b)
      [] af_op = 4 -> Abort(c, b)
      [] af_op = 5 -> Done(set_flag(set_flag([c EXCEPT !.Accumulator = 255 - @], "N", TRUE),
                                    "H", TRUE), b)
      [] af_op = 6 -> Done(set_flag(set_flag(set_flag(c, "N", FALSE), "H", FALSE), "C", TRUE), b)
      [] af_op = 7 -> Done(set_flag(set_flag(set_flag(c, "N", FALSE), "H", FALSE),
                                    "C", ~get_flag(c, "C")), b)

\* INC rr and DEC rr; for SP both arms are self.SP += 1, which aborts a debug
\* build at 0xFFFF and wraps in a release build
IncDec16(c, b, register, down, bld) ==
    LET f == PairFields(register)
        word == IF down THEN decrement_16(c[f[1]], c[f[2]]) ELSE increment_16(c[f[1]], c[f[2]])
    IN  IF register = 3
        THEN (IF c.SP = 65535 /\ bld = "debug" THEN Abort(c, b)
              ELSE Done([c EXCEPT !.SP = (@ + 1) % 65536], b))
        ELSE Done(write_16(c, f[1], f[2], word), b)

\* INC r and DEC r (no flags)
stepped(c, b, reg, old, delta) ==
    IF old = PANIC THEN Abort(c, b)
    ELSE write_register_immediate(c, b, reg, (old + delta) % 256)

IncDec8(c, b, reg, delta) == stepped(c, b, reg, read_register(c, b, reg), delta)

\* the arms of tick's match that work on an operand read from a register
alu_on(c, b, op, operand) ==
    IF operand = PANIC THEN Abort(c, b) ELSE Done(handle_op(c, op, operand), b)

bit_on(c, b, bit, operand) ==
    IF operand = PANIC THEN Abort(c, b)
    ELSE Done(set_flag(set_flag(set_flag(c, "Z", get_bit(operand, bit)), "N", FALSE),
                       "H", TRUE), b)

\* SetBit and ResetBit change a copy when the register is (HL)
set_bit_on(c, b, bit, register, value, operand) ==
    IF operand = PANIC THEN Abort(c, b)
    ELSE IF register = 6 THEN Done(c, b)
    ELSE Done([c EXCEPT ![Reg8Field(register)] = set_bit(@, bit, value)], b)

\* the arms that go through a Register16Indirect: ind is what get_indirect gave
load_indirect(b, ind) == LoadA(ind.cpu, b, ind.addr)

store_indirect(b, ind, byte) == Store(ind.cpu, b, ind.addr, byte)

\* the match on the fetched instruction
execute(c, b, instr, bld) ==
    LET op == instr.op
        x == instr.a
        y == instr.b
    IN
    CASE op = "Nop" -> Done(c, b)
      [] op = "Jump" -> Done([c EXCEPT !.PC = x], b)
      [] op = "Stop" -> Done([c EXCEPT !.stop = TRUE], b)
      [] op = "LoadImmediate" -> write_register_immediate(c, b, x, y)
      [] op = "LoadIndirectImmediateA" -> Store(c, b, x, c.Accumulator)
      [] op = "LoadAIndirectImmediate" -> LoadA(c, b, x)
      [] op = "LoadHighPageA" -> Store(c, b, 65280 + x, c.Accumulator)
      [] op = "LoadAHighPage" -> LoadA(c, b, 65280 + x)
      [] op = "LoadHighPageIndirectA" -> Store(c, b, 65280 + c.C, c.Accumulator)
      [] op = "LoadAHighPageIndirect" -> LoadA(c, b, 65280 + c.C)
      [] op = "AccumulatorFlag" -> AccumulatorFlag(c, b, x)
      [] op = "Alu" -> alu_on(c, b, x, read_register(c, b, y))
      [] op = "AluImmediate" -> Done(handle_op(c, x, y), b)
      [] op = "JumpConditional" ->
            IF check_condition(c, x) THEN Taken([c EXCEPT !.PC = y], b) ELSE Done(c, b)
      [] op = "LoadImmediate16" ->
            IF x = 3 THEN Done([c EXCEPT !.SP = y], b)
            ELSE Done(write_16(c, PairFields(x)[1], PairFields(x)[2], y), b)
      [] op = "LoadAIndirect" -> load_indirect(b, get_indirect(c, x))
      [] op = "LoadIndirectA" -> store_indirect(b, get_indirect(c, x), c.Accumulator)
      [] op = "Increment16" -> IncDec16(c, b, x, FALSE, bld)
      [] op = "Decrement16" -> IncDec16(c, b, x, TRUE, bld)
      [] op = "Load" -> IF x = 0 /\ y = 0 THEN Abort(c, b) ELSE write_register(c, b, x, y)
      [] op = "Increment" -> IncDec8(c, b, x, 1)
      [] op = "Decrement" -> IncDec8(c, b, x, 255)
      [] op = "Push" -> Push16(c, b, PairValue(c, x), c.PC)
      [] op = "Pop" ->
            popped_pair(c, b, get_stack_16(b, c.SP), PairFields(x)[1], PairFields(x)[2])
      [] op = "JumpHL" -> Done([c EXCEPT !.PC = get_hl(c)], b)
      [] op = "DisableInterrupts" -> Done([c EXCEPT !.IME = FALSE], b)
      [] op = "EnableInterrupts" -> Done([c EXCEPT !.IME = TRUE], b)
      [] op = "RetInterrupt" -> PopPC(c, b, TRUE)
      [] op = "Call" -> Push16(c, b, c.PC, x)
      [] op = "Ret" -> PopPC(c, b, c.IME)
      [] op = "RetConditional" -> IF check_condition(c, x) THEN PopPC(c, b, c.IME) ELSE Done(c, b)
      [] op = "JumpRelative" -> Done([c EXCEPT !.PC = add_rel(@, x)], b)
      [] op = "JumpRelativeConditional" ->
            IF check_condition(c, x) THEN Done([c EXCEPT !.PC = add_rel(@, y)], b) ELSE Done(c, b)
      [] op = "Bit" -> bit_on(c, b, x, read_register(c, b, y))
      [] op = "SetBit" -> set_bit_on(c, b, x, y, TRUE, read_register(c, b, y))
      [] op = "ResetBit" -> set_bit_on(c, b, x, y, FALSE, read_register(c, b, y))
      [] op = "Bitwise" -> handle_bitwise(c, b, x, y)
      [] op = "Halt" -> Done([c EXCEPT !.halted = TRUE], b)
      [] op = "Reset" -> Push16(c, b, c.PC, x)
      [] OTHER -> Abort(c, b)

\* tick: fetch, then handle_interrupt, then the halted check, then execute.
\* obs is what happened inside: "fetched" the instruction decoded at the entry
\* PC, "pc_fetch" the PC after the fetch, "mid", "mid_if" and "mid_ie" the CPU,
\* IF and IE as handle_interrupt left them, "hi" what handle_interrupt returned
\* and "pushed" the word it pushed.
tick_obs(f, h) ==
    [fetched |-> f.instr, pc_fetch |-> f.cpu.PC, mid |-> h.cpu,
     mid_if |-> get_u8(h.bus, IF_REG), mid_ie |-> get_u8(h.bus, IE_REG),
     hi |-> h.ret, pushed |-> h.pushed]

\* the end of tick: e is what the match left
executed(f, h, e) ==
    IF e.panic
    THEN [cpu |-> e.cpu, bus |-> e.bus, ret |-> 0, panic |-> TRUE, obs |-> tick_obs(f, h)]
    ELSE [cpu |-> e.cpu, bus |-> e.bus, ret |-> ticks(f.instr, e.action_taken),
          panic |-> FALSE, obs |-> tick_obs(f, h)]

\* tick after handle_interrupt has returned h
interrupted(f, h, bld) ==
    IF h.panic
    THEN [cpu |-> h.cpu, bus |-> h.bus, ret |-> 0, panic |-> TRUE, obs |-> tick_obs(f, h)]
    ELSE IF h.ret # 0
    THEN [cpu |-> h.cpu, bus |-> h.bus, ret |-> h.ret, panic |-> FALSE, obs |-> tick_obs(f, h)]
    ELSE IF h.cpu.halted
    THEN [cpu |-> h.cpu, bus |-> h.bus, ret |-> 1, panic |-> FALSE, obs |-> tick_obs(f, h)]
    ELSE executed(f, h, execute(h.cpu, h.bus, f.instr, bld))

\* tick after next_instruction has returned f
after_fetch(b, f, bld) ==
    IF f.panic
    THEN [cpu |-> f.cpu, bus |-> b, ret |-> 0, panic |-> TRUE,
          obs |-> tick_obs(f, NotDispatched(f.cpu, b))]
    ELSE interrupted(f, handle_interrupt(f.cpu, b), bld)

tick(c, b, bld) == after_fetch(b, next_instruction(c, b, bld), bld)

-----------------------------------------------------------------------------
(* The PPU.  A frame buffer holds GAMEBOY_HEIGHT rows of GAMEBOY_WIDTH      *)
(* bytes.  A row is kept as the byte of its first pixel together with the  *)
(* pixels that differ from it, and the buffer as the rows at which the     *)
(* content changes: row r holds what the last change point at or above it  *)
(* holds.                                                                  *)

\* #[derive(Default)] for PPU
PPU_default == [updated |-> FALSE, mode_clock |-> 0, mode |-> 0, hblanking |-> FALSE]

\* a row of pixels, given as a function on 0 .. GAMEBOY_WIDTH - 1
RowOf(f) ==
    [fill |-> f[0],
     px |-> [x \in {x \in 0 .. GAMEBOY_WIDTH - 1 : f[x] # f[0]} |-> f[x]]]

\* a row of one byte throughout
UniformRow(byte) == [fill |-> byte, px |-> Empty]

\* [0; GAMEBOY_HEIGHT * GAMEBOY_WIDTH]
FrameBuffer_default == [row \in {0} |-> UniformRow(0)]

\* the row r of a frame buffer
RowAt(fb, r) ==
    fb[CHOOSE s \in DOMAIN fb : s <= r /\ \A u \in DOMAIN fb : u <= r => u <= s]

\* frame_buffer[i]
FramePixel(fb, i) ==
    LET row == RowAt(fb, i \div GAMEBOY_WIDTH)
        x == i % GAMEBOY_WIDTH
    IN  IF x \in DOMAIN row.px THEN row.px[x] ELSE row.fill

\* the frame buffer with row r replaced: r is a change point if it differs from
\* the row above it, and r + 1 is one if it differs from the new row
WithRow(fb, r, drawn) ==
    LET keep == DOMAIN fb \ {r, r + 1}
        here == IF r = 0 \/ RowAt(fb, r - 1) # drawn THEN {r} ELSE {}
        next == IF r + 1 < GAMEBOY_HEIGHT /\ RowAt(fb, r + 1) # drawn THEN {r + 1} ELSE {}
    IN  [s \in keep \cup here \cup next |-> IF s = r THEN drawn ELSE RowAt(fb, s)]

\* draw_bg, pixel by pixel.  The tile number read from the tile map for the
\* background position (bg_x, bg_y)
tile_number(b, lcd_control, bg_y, bg_x) ==
    get_u8(b, (IF get_bit(lcd_control, 3) THEN 39936 ELSE 38912)
              + ((bg_y \div 8) % 32) * 32 + ((bg_x \div 8) % 32))

\* a tile address that is taken from 0x8000 whatever LCDC bit 4 says
tile_address_unsigned(lcd_control, number) == 32768 + number * 16

\* the address of a tile's data: unsigned from 0x8000 or signed around 0x8800
tile_address(lcd_control, number) ==
    IF get_bit(lcd_control, 4) THEN 32768 + number * 16
    ELSE 34816 + (i8(number) + 128) * 16

\* the two bits of a pixel, from the two bytes of its tile row
color_id(b, tile_pixel, pixel_x) ==
    (IF get_bit(get_u8(b, tile_pixel + 1), 7 - pixel_x) THEN 2 ELSE 0)
    + (IF get_bit(get_u8(b, tile_pixel), 7 - pixel_x) THEN 1 ELSE 0)

\* the shade the palette gives a colour id
remap_color(pallete, id) ==
    CASE get_bits(pallete, 2 * id, 2 * id + 2) = 0 -> 255
      [] get_bits(pallete, 2 * id, 2 * id + 2) = 1 -> 192
      [] get_bits(pallete, 2 * id, 2 * id + 2) = 2 -> 95
      [] get_bits(pallete, 2 * id, 2 * id + 2) = 3 -> 0

bg_pixel(b, lcd_control, bg_y, bg_x) ==
    remap_color(get_u8(b, PALLETE),
                color_id(b, tile_address(lcd_control, tile_number(b, lcd_control, bg_y, bg_x))
                            + (bg_y % 8) * 2,
                         bg_x % 8))

\* the colour draw_bg gives pixel x of the current line
bg_color(b, x) ==
    bg_pixel(b, get_u8(b, LCDC), (get_u8(b, SCROLL_Y) + get_u8(b, LCD_Y)) % 256,
             get_u8(b, SCROLL_X) + x)

\* render_scanline: the row LY is filled with 255, then draw_bg overwrites it
\* unless LCDC bit 0 is clear
render_scanline(b, fb) ==
    WithRow(fb, get_u8(b, LCD_Y),
            IF get_bit(get_u8(b, LCDC), 0)
            THEN RowOf([x \in 0 .. GAMEBOY_WIDTH - 1 |-> bg_color(b, x)])
            ELSE UniformRow(255))

\* a change_mode that requests the interrupt whatever the mode entered
change_mode_requesting(st, mode) ==
    LET s1 == [st EXCEPT !.ppu.mode = mode,
                         !.events = Append(@, [mode |-> mode, ly |-> st.lcd_y]),
                         !.bus = request_interrupt(@, 0)]
    IN  CASE mode = 0 ->
                [s1 EXCEPT !.fb = render_scanline(st.bus, st.fb), !.ppu.hblanking = TRUE]
          [] mode = 1 -> [s1 EXCEPT !.ppu.updated = TRUE]
          [] OTHER -> s1

\* change_mode on the running state st of a tick: its PPU, bus, frame buffer
\* and the list of the modes entered
change_mode(st, mode) ==
    LET s1 == [st EXCEPT !.ppu.mode = mode,
                         !.events = Append(@, [mode |-> mode, ly |-> st.lcd_y])]
    IN  CASE mode = 0 ->
                [s1 EXCEPT !.fb = render_scanline(st.bus, st.fb), !.ppu.hblanking = TRUE]
          [] mode = 1 ->
                [s1 EXCEPT !.bus = request_interrupt(st.bus, 0), !.ppu.updated = TRUE]
          [] OTHER -> s1

\* a change of mode made whether or not the mode differs
change_mode_unconditional(st, mode) == change_mode(st, mode)

change_mode_if_necessary(st, mode) ==
    IF st.ppu.mode # mode THEN change_mode(st, mode) ELSE st

\* the mode a scan-line is in at a given mode clock
ModeAt(mode_clock) == IF mode_clock <= 80 THEN 2 ELSE IF mode_clock <= 252 THEN 3 ELSE 0

\* the mode clock has run past the line: LY moves on, and from line 144 on the
\* PPU is in mode 1
next_line(st, clock, lcd_y) ==
    IF lcd_y >= 144
    THEN change_mode_if_necessary(
             [st EXCEPT !.ppu.mode_clock = clock - 456, !.lcd_y = lcd_y,
                        !.bus = write_u8(@, LCD_Y, lcd_y)], 1)
    ELSE [st EXCEPT !.ppu.mode_clock = clock - 456, !.lcd_y = lcd_y,
                    !.bus = write_u8(@, LCD_Y, lcd_y)]

\* on a visible line the mode follows the mode clock
line_mode(st) ==
    IF st.lcd_y < 144 THEN change_mode_if_necessary(st, ModeAt(st.ppu.mode_clock)) ELSE st

\* the body of tick's while loop for a chunk that takes the mode clock to clock
loop_body(st, clock) ==
    line_mode(IF clock >= 456
              THEN next_line(st, clock, ((st.lcd_y + 1) % 256) % 154)
              ELSE [st EXCEPT !.ppu.mode_clock = clock])

\* tick's while loop, in chunks of at most 80 T-cycles; lcd_y + 1 is a u8
\* addition, which at 255 aborts a debug build and wraps in a release one
RECURSIVE tick_loop(_, _, _)
tick_loop(st, ticks_left, bld) ==
    IF ticks_left = 0 THEN st
    ELSE IF ticks_left < 80
    THEN (IF st.ppu.mode_clock + ticks_left >= 456 /\ st.lcd_y = 255 /\ bld = "debug"
          THEN [st EXCEPT !.panic = TRUE]
          ELSE loop_body(st, st.ppu.mode_clock + ticks_left))
    ELSE IF st.ppu.mode_clock + 80 >= 456 /\ st.lcd_y = 255 /\ bld = "debug"
    THEN [st EXCEPT !.panic = TRUE]
    ELSE tick_loop(loop_body(st, st.ppu.mode_clock + 80), ticks_left - 80, bld)

\* a tick that does not look at LCDC
PPU_tick_lcd_blind(p, b, fb, t, bld) ==
    tick_loop([ppu |-> [p EXCEPT !.hblanking = FALSE], bus |-> b, fb |-> fb,
               lcd_y |-> get_u8(b, LCD_Y), events |-> <<>>, panic |-> FALSE], t, bld)

\* PPU::tick
PPU_tick(p, b, fb, t, bld) ==
    LET st == [ppu |-> p, bus |-> b, fb |-> fb, lcd_y |-> get_u8(b, LCD_Y),
               events |-> <<>>, panic |-> FALSE]
    IN  IF ~get_bit(get_u8(b, LCDC), 7) THEN st
        ELSE tick_loop([st EXCEPT !.ppu.hblanking = FALSE], t, bld)

-----------------------------------------------------------------------------
(* The double buffer and the two threads of run.                           *)

\* DoubleBuffer::get_current and get_off, on the index loaded
get_current(curr) == curr

\* an off buffer that is the current one
get_off_is_current(curr) == curr

get_off(curr) == (curr + 1) % 2

\* DoubleBuffer::swap
swap(curr) == (curr + 1) % 2

\* a lock that is handed out whoever holds it
lock_unchecked(h, i) == TRUE

\* Mutex::lock returns once nobody holds the mutex
lock_free(h, i) == h[i] = "none"

\* ROM images: the bytes placed at their addresses, every other byte 0
Place(rom, addr, bytes) ==
    LET at == addr .. addr + Len(bytes) - 1
        byte(a) == IF a \in at THEN bytes[a - addr + 1] ELSE rom[a]
    IN  [a \in {x \in DOMAIN rom \cup at : byte(x) # 0} |-> byte(a)]

\* RETI at each of the five interrupt vectors
VectorsRETI == [a \in {64, 72, 80, 88, 96} |-> 217]

\* what tick found on entry
EntryOf(c, b) ==
    [PC |-> c.PC, SP |-> c.SP, IME |-> c.IME, halted |-> c.halted,
     IF_REG |-> get_u8(b, IF_REG), IE_REG |-> get_u8(b, IE_REG), LCDC |-> get_u8(b, LCDC)]

NoObs ==
    [fetched |-> Instr("Nop", 0, 0), pc_fetch |-> 0, mid |-> CPU_default, mid_if |-> 0,
     mid_ie |-> 0, hi |-> 0, pushed |-> PANIC]

NoTick ==
    [kind |-> "none", entry |-> EntryOf(CPU_default, MemoryBus_new(Empty)), ret |-> 0,
     panic |-> FALSE, obs |-> NoObs, events |-> <<>>, t |-> 0]

NoHist ==
    [ticks |-> 0, requests |-> 0, credited |-> 0, entered1 |-> 0, published |-> 0,
     stamp |-> [i \in 0 .. 1 |-> [frame |-> 0, done |-> TRUE]], stopped_ticks |-> 0]

\* the state of the threads and their shared data around a CPU c and a bus b,
\* before the first step; l is what is recorded of the last call
InitAll(c, b, bld, l) ==
    /\ cpu = c
    /\ bus = b
    /\ ppu = PPU_default
    /\ buffers = [i \in 0 .. 1 |-> FrameBuffer_default]
    /\ curr_buffer = 0
    /\ holder = [i \in 0 .. 1 |-> "none"]
    /\ poisoned = [i \in 0 .. 1 |-> FALSE]
    /\ emu = [pc |-> "lock", off |-> 0]
    /\ rend = [pc |-> "load", idx |-> 0, seen |-> [frame |-> 0, done |-> TRUE], swaps |-> 0]
    /\ build = bld
    /\ last = l
    /\ hist = NoHist

\* the state run sets up around a ROM image
InitWith(rom, bld) == InitAll(CPU_default, MemoryBus_new(rom), bld, NoTick)

Builds == {"debug", "release"}

\* the number of mode-1 entries among the modes a PPU tick entered
RECURSIVE CountMode1(_)
CountMode1(events) ==
    IF events = <<>> THEN 0
    ELSE (IF Head(events).mode = 1 THEN 1 ELSE 0) + CountMode1(Tail(events))

-----------------------------------------------------------------------------
(* The CPU on its own: a ROM that sets up SP, IE, IF and IME and then      *)
(* halts or runs on, ticked while a device may request the VBlank           *)
(* interrupt between two ticks.                                            *)

MaxTicks == 12

MaxIrqByte == 31

IrqBytes == 0 .. MaxIrqByte

\* stack pointers a program loads: none (SP stays 0), 0xFFFE, 0xD000, 0xFF11
\* (SP-2 is IF) and 0xC000 (SP-1 is below work RAM)
StackChoices == {0, 65534, 53248, 65297, 49152}

RomParams ==
    [ie : IrqBytes, rq : IrqBytes, sp : {65534}, ei : {TRUE}, halt : {FALSE}]
    \cup [ie : {0, 1, 31}, rq : {0, 1, 6, 31}, sp : StackChoices, ei : BOOLEAN, halt : BOOLEAN]

\* [LD SP,sp;] LD A,ie; LDH (0xFF),A; LD A,rq; LDH (0x0F),A; EI or DI;
\* HALT or NOP; NOP; JR -2, with RETI at every vector
IrqRom(prm) ==
    Place(VectorsRETI, 256,
          (IF prm.sp = 0 THEN <<>> ELSE <<49, prm.sp % 256, prm.sp \div 256>>)
          \o <<62, prm.ie, 224, 255, 62, prm.rq, 224, 15>>
          \o <<IF prm.ei THEN 251 ELSE 243, IF prm.halt THEN 118 ELSE 0, 0, 24, 254>>)

InitCPU == \E prm \in RomParams, bld \in Builds : InitWith(IrqRom(prm), bld)

\* what a call of CPU::tick that came out as r leaves behind
CpuTickEffect(r) ==
    /\ cpu' = r.cpu
    /\ bus' = r.bus
    /\ last' = [kind |-> "cpu", entry |-> EntryOf(cpu, bus), ret |-> r.ret,
                panic |-> r.panic, obs |-> r.obs, events |-> <<>>, t |-> 0]
    /\ emu' = IF r.panic THEN [emu EXCEPT !.pc = "panicked"] ELSE emu
    /\ hist' = [hist EXCEPT !.ticks = @ + 1,
                            !.stopped_ticks = @ + (IF cpu.stop THEN 1 ELSE 0)]

\* one call of CPU::tick
CpuTick ==
    /\ emu.pc # "panicked"
    /\ hist.ticks < MaxTicks
    /\ CpuTickEffect(tick(cpu, bus, build))
    /\ UNCHANGED <<ppu, buffers, curr_buffer, holder, poisoned, rend, build>>

\* a device requests the VBlank interrupt between two ticks (once in a run)
RequestVBlank ==
    /\ emu.pc # "panicked"
    /\ hist.requests = 0
    /\ bus' = request_interrupt(bus, 0)
    /\ hist' = [hist EXCEPT !.requests = @ + 1]
    /\ UNCHANGED <<cpu, ppu, buffers, curr_buffer, holder, poisoned, emu, rend, build, last>>

NextCPU == CpuTick \/ RequestVBlank

SpecCPU == InitCPU /\ [][NextCPU]_vars

-----------------------------------------------------------------------------
(* Interrupt dispatch and HALT (SpecCPU).                                  *)

\* the interrupt lines both requested and enabled, of an IF and an IE byte
Pending(if_byte, ie_byte) == {i \in Lines : get_bit(if_byte, i) /\ get_bit(ie_byte, i)}

PendingNow == Pending(get_u8(bus, IF_REG), get_u8(bus, IE_REG))

Lowest(S) == CHOOSE i \in S : \A j \in S : i <= j

\* the step is a call of CPU::tick
CpuTicked == hist'.ticks = hist.ticks + 1

\* the two bytes a push at sp stores are neither IF nor IE
StackClearOfIrq(sp) ==
    {(sp + 65535) % 65536, (sp + 65534) % 65536} \cap {IF_REG, IE_REG} = {}

\* the effects of a dispatch of line n by the step
DispatchedLine(n) ==
    /\ cpu'.PC = 64 + 8 * n
    /\ get_u8(bus', IF_REG) = set_bit(get_u8(bus, IF_REG), n, FALSE)
    /\ get_u8(bus', IE_REG) = get_u8(bus, IE_REG)
    /\ ~cpu'.IME

C2_Original ==
    [][(CpuTicked /\ ~last'.panic /\ last'.obs.hi # 0)
        => (last'.obs.pushed = cpu.PC /\ last'.obs.pc_fetch = cpu.PC)]_vars

\* C3: a tick of a halted CPU with an interrupt requested and enabled clears
\* halted, with IME set or clear; with IME clear it does not dispatch: IF, SP
\* and PC are as the fetch left them when handle_interrupt returns 0.
C3_HaltWake ==
    [][(CpuTicked /\ cpu.halted /\ PendingNow # {} /\ ~last'.panic)
        => /\ ~last'.obs.mid.halted
           /\ ~cpu.IME =>
                /\ last'.obs.hi = 0
                /\ last'.obs.mid_if = get_u8(bus, IF_REG)
                /\ last'.obs.mid.SP = cpu.SP
                /\ last'.obs.mid.PC = last'.obs.pc_fetch
                /\ ~last'.obs.mid.IME]_vars

\* a halted CPU with IME clear was woken by a pending interrupt, without dispatch
C3_Witness ==
    /\ last.kind = "cpu" /\ ~last.panic
    /\ last.entry.halted /\ ~last.entry.IME
    /\ Pending(last.entry.IF_REG, last.entry.IE_REG) # {}
    /\ ~last.obs.mid.halted /\ last.obs.hi = 0

\* C4 as stated: a tick of a halted CPU with no interrupt requested and enabled
\* returns 1 and changes neither the CPU nor memory.
C4_Original ==
    [][(CpuTicked /\ cpu.halted /\ PendingNow = {})
        => (last'.ret = 1 /\ ~last'.panic /\ cpu' = cpu /\ bus' = bus)]_vars

-----------------------------------------------------------------------------
(* The PPU on its own: tick is credited T-cycles in calls of several sizes, *)
(* while the driver takes the frames.                                      *)

MaxFrames == 2

MaxLcdCycles == 1200

LineCycles == 456
LinesPerFrame == 154
FrameCycles == LineCycles * LinesPerFrame

\* the sizes of one call in T-cycles: what 6, 12 and 24 M-cycles cost, a line,
\* a line and a bit, two lines
TSizes == {24, 48, 96, LineCycles, 480, 912}

\* the sizes of one call while the LCD is switched off and on
LcdSizes == {24, 152, LineCycles}

InitPPU == \E bld \in Builds : InitWith(Empty, bld)

\* what a call of PPU::tick for t T-cycles that came out as r leaves behind
PpuTickEffect(r, t) ==
    /\ ppu' = r.ppu
    /\ bus' = r.bus
    /\ buffers' = [buffers EXCEPT ![get_off(curr_buffer)] = r.fb]
    /\ last' = [kind |-> "ppu", entry |-> EntryOf(cpu, bus), ret |-> 0,
                panic |-> r.panic, obs |-> NoObs, events |-> r.events, t |-> 0]
    /\ emu' = IF r.panic THEN [emu EXCEPT !.pc = "panicked"] ELSE emu
    /\ hist' = [hist EXCEPT !.credited = @ + t,
                            !.entered1 = @ + CountMode1(r.events)]

\* one call of PPU::tick on the off buffer, within a limit of T-cycles in all
PpuTickWithin(sizes, limit) ==
    \E t \in sizes :
        /\ emu.pc # "panicked"
        /\ hist.credited + t <= limit
        /\ PpuTickEffect(PPU_tick(ppu, bus, buffers[get_off(curr_buffer)], t, build), t)
        /\ UNCHANGED <<cpu, curr_buffer, holder, poisoned, rend, build>>

PpuTick == PpuTickWithin(TSizes, MaxFrames * FrameCycles)

\* run's ppu.updated = false
TakeFrame ==
    /\ ppu.updated
    /\ ppu' = [ppu EXCEPT !.updated = FALSE]
    /\ UNCHANGED <<cpu, bus, buffers, curr_buffer, holder, poisoned, emu, rend, build,
                   last, hist>>

NextPPU == PpuTick \/ TakeFrame

SpecPPU == InitPPU /\ [][NextPPU]_vars

\* the PPU while the program switches the LCD off and on through LCDC
LcdTick == PpuTickWithin(LcdSizes, MaxLcdCycles)

WriteLCDC ==
    \E byte \in {0, 128} :
        /\ emu.pc # "panicked"
        /\ bus' = write_u8(bus, LCDC, byte)
        /\ UNCHANGED <<cpu, ppu, buffers, curr_buffer, holder, poisoned, emu, rend, build,
                       last, hist>>

NextLCD == LcdTick \/ WriteLCDC

SpecLCD == InitPPU /\ [][NextLCD]_vars

\* the step is a call of PPU::tick
PpuTicked == hist'.credited # hist.credited

VBlankRequested(b) == get_bit(get_u8(b, IF_REG), 0)

\* C5: with the LCD on, from LY = 0 and an empty mode clock, after T-cycles
\* credited in any split LY is the number of whole lines modulo 154 and the mode
\* clock the rest, and mode 1 has been entered (frame_ready set) once per frame,
\* on reaching line 144: after exactly 70224 T-cycles LY is back at 0 and the
\* frame was made ready exactly once.
C5_FrameClock ==
    /\ get_u8(bus, LCD_Y) = (hist.credited \div LineCycles) % LinesPerFrame
    /\ ppu.mode_clock = hist.credited % LineCycles
    /\ hist.entered1 = (hist.credited + (LinesPerFrame - GAMEBOY_HEIGHT) * LineCycles) \div FrameCycles
    /\ hist.credited = FrameCycles => (get_u8(bus, LCD_Y) = 0 /\ hist.entered1 = 1)

\* exactly one frame of T-cycles has been credited
C5_Witness ==
    /\ hist.credited = FrameCycles
    /\ get_u8(bus, LCD_Y) = 0
    /\ hist.entered1 = 1
    /\ last.kind = "ppu"

EventsOf(l) == {l.events[i] : i \in DOMAIN l.events}

\* C6: the VBlank request and frame_ready are raised by an entry into mode 1 and
\* by nothing else; mode 1 is entered on reaching line 144, once per frame, and
\* not again while LY stays in 144..153.
C6_VBlankEntry ==
    [][/\ (VBlankRequested(bus') /\ ~VBlankRequested(bus)) \/ (ppu'.updated /\ ~ppu.updated)
          => (PpuTicked /\ CountMode1(last'.events) >= 1)
       /\ PpuTicked =>
            /\ \A e \in EventsOf(last') : e.mode = 1 => e.ly = GAMEBOY_HEIGHT
            /\ CountMode1(last'.events) >= 1 => (VBlankRequested(bus') /\ ppu'.updated)
            /\ CountMode1(last'.events)
                 = ((hist'.credited + (LinesPerFrame - GAMEBOY_HEIGHT) * LineCycles) \div FrameCycles)
                   - ((hist.credited + (LinesPerFrame - GAMEBOY_HEIGHT) * LineCycles) \div FrameCycles)
            /\ (get_u8(bus, LCD_Y) >= GAMEBOY_HEIGHT /\ get_u8(bus', LCD_Y) >= get_u8(bus, LCD_Y))
                 => CountMode1(last'.events) = 0]_vars

\* the second frame's entry into mode 1 made the frame ready again
C6_Witness ==
    /\ last.kind = "ppu" /\ CountMode1(last.events) = 1
    /\ hist.entered1 = 2
    /\ get_u8(bus, LCD_Y) = GAMEBOY_HEIGHT
    /\ VBlankRequested(bus) /\ ppu.updated

\* C7: a call of PPU::tick while LCDC bit 7 is clear changes nothing: not the
\* PPU (mode, mode clock, frame_ready), not the bus (LY, IF), not the buffers.
C7_LcdOff ==
    [][(PpuTicked /\ ~get_bit(get_u8(bus, LCDC), 7))
        => (ppu' = ppu /\ bus' = bus /\ buffers' = buffers /\ last'.events = <<>>)]_vars

\* a tick was made with the LCD off in the middle of a line
C7_Witness ==
    /\ last.kind = "ppu" /\ ~get_bit(last.entry.LCDC, 7)
    /\ ppu.mode_clock # 0 /\ ppu.mode = 3

-----------------------------------------------------------------------------
(* run: the emulator thread's loop and the renderer's render, interleaved  *)
(* step by step.  A ROM is short here: it writes LY = 143 again and again, *)
(* so that a frame takes one scan-line (456 T-cycles) to come round.       *)

MaxSwaps == 2

\* LD A,143; LDH (0x44),A; JR -6
QuickLoop == <<62, 143, 224, 68, 24, 250>>

\* LD A,143; LDH (0x44),A, n times over
Unrolled(n) == [i \in 1 .. 4 * n |-> <<62, 143, 224, 68>>[((i - 1) % 4) + 1]]

\* the ROMs run: the loop; STOP and then the loop; the loop unrolled up to the
\* middle of the second frame, where the undefined opcode 0xD3 follows
Programs ==
    {Place(Empty, 256, QuickLoop),
     Place(Empty, 256, <<16, 0>> \o QuickLoop),
     Place(Empty, 256, Unrolled(40) \o <<211>>)}

Init == \E rom \in Programs, bld \in Builds : InitWith(rom, bld)

\* a PPU tick drew a scan-line
Rendered(events) == \E i \in DOMAIN events : events[i].mode = 0

\* let mut lock = buffer.get_off().lock().unwrap()
EmuLock ==
    /\ emu.pc = "lock"
    /\ hist.published < MaxSwaps
    /\ lock_free(holder, get_off(curr_buffer))
    /\ emu' = [pc |-> "run", off |-> get_off(curr_buffer)]
    /\ holder' = [holder EXCEPT ![get_off(curr_buffer)] = "emu"]
    /\ UNCHANGED <<cpu, bus, ppu, buffers, curr_buffer, poisoned, rend, build, last, hist>>

\* what one turn of the loop leaves behind: r is what cpu.tick came out as, p
\* what ppu.tick did; a panic unwinds the thread, which poisons and releases
\* the mutex
EmuTickEffect(r, p) ==
    /\ cpu' = r.cpu
    /\ bus' = p.bus
    /\ ppu' = p.ppu
    /\ buffers' = [buffers EXCEPT ![emu.off] = p.fb]
    /\ last' = [kind |-> "emu", entry |-> EntryOf(cpu, bus), ret |-> r.ret,
                panic |-> p.panic, obs |-> r.obs, events |-> p.events, t |-> 0]
    /\ emu' = IF p.panic THEN [emu EXCEPT !.pc = "panicked"] ELSE emu
    /\ holder' = IF p.panic THEN [holder EXCEPT ![emu.off] = "none"] ELSE holder
    /\ poisoned' = IF p.panic THEN [poisoned EXCEPT ![emu.off] = TRUE] ELSE poisoned
    /\ hist' = [hist EXCEPT
                  !.ticks = @ + 1,
                  !.credited = @ + (IF r.panic THEN 0 ELSE r.ret * 4),
                  !.entered1 = @ + CountMode1(p.events),
                  !.stopped_ticks = @ + (IF cpu.stop THEN 1 ELSE 0),
                  !.stamp[emu.off] = IF Rendered(p.events) \/ CountMode1(p.events) >= 1
                                     THEN [frame |-> hist.published + 1,
                                           done |-> p.ppu.updated]
                                     ELSE @]

\* ppu.tick(&memory_bus, &mut *lock, ticks * 4) after a cpu.tick that came out
\* as r; it is not reached if cpu.tick panicked
EmuPpuTick(r) ==
    IF r.panic
    THEN [ppu |-> ppu, bus |-> r.bus, fb |-> buffers[emu.off],
          lcd_y |-> 0, events |-> <<>>, panic |-> TRUE]
    ELSE PPU_tick(ppu, r.bus, buffers[emu.off], r.ret * 4, build)

EmuTicked(r) == EmuTickEffect(r, EmuPpuTick(r))

\* one turn of while !ppu.updated: cpu.tick, then ppu.tick on the locked buffer
\* for four times the M-cycles
EmuTick ==
    /\ emu.pc = "run"
    /\ ~ppu.updated
    /\ EmuTicked(tick(cpu, bus, build))
    /\ UNCHANGED <<curr_buffer, rend, build>>

\* the loop is left: ppu.updated = false; drop(lock)
EmuDrop ==
    /\ emu.pc = "run"
    /\ ppu.updated
    /\ ppu' = [ppu EXCEPT !.updated = FALSE]
    /\ holder' = [holder EXCEPT ![emu.off] = "none"]
    /\ emu' = [emu EXCEPT !.pc = "swap"]
    /\ UNCHANGED <<cpu, bus, buffers, curr_buffer, poisoned, rend, build, last, hist>>

\* buffer.swap(); a renderer that holds a lock at this moment contends with it
EmuSwap ==
    /\ emu.pc = "swap"
    /\ curr_buffer' = swap(curr_buffer)
    /\ emu' = [emu EXCEPT !.pc = "recv"]
    /\ hist' = [hist EXCEPT !.published = @ + 1]
    /\ rend' = IF rend.pc \in {"read", "unlock"} THEN [rend EXCEPT !.swaps = @ + 1] ELSE rend
    /\ UNCHANGED <<cpu, bus, ppu, buffers, holder, poisoned, build, last>>

\* periodic.recv().unwrap(): the timer's next message arrives
EmuRecv ==
    /\ emu.pc = "recv"
    /\ emu' = [emu EXCEPT !.pc = "lock"]
    /\ UNCHANGED <<cpu, bus, ppu, buffers, curr_buffer, holder, poisoned, rend, build,
                   last, hist>>

\* render: get_current() loads the index
RendLoad ==
    /\ rend.pc = "load"
    /\ rend' = [rend EXCEPT !.pc = "lock", !.idx = get_current(curr_buffer)]
    /\ UNCHANGED <<cpu, bus, ppu, buffers, curr_buffer, holder, poisoned, emu, build,
                   last, hist>>

\* .lock().expect("Emulator thread poisoned"): the mutex is acquired once it is
\* free; if it is poisoned the renderer panics
RendLock ==
    /\ rend.pc = "lock"
    /\ lock_free(holder, rend.idx)
    /\ IF poisoned[rend.idx]
       THEN rend' = [rend EXCEPT !.pc = "panicked"] /\ holder' = holder
       ELSE /\ rend' = [rend EXCEPT !.pc = "read", !.swaps = 0]
            /\ holder' = [holder EXCEPT ![rend.idx] = "rend"]
    /\ UNCHANGED <<cpu, bus, ppu, buffers, curr_buffer, poisoned, emu, build, last, hist>>

\* write_texture(&*data): the buffer is copied out
RendRead ==
    /\ rend.pc = "read"
    /\ rend' = [rend EXCEPT !.pc = "unlock", !.seen = hist.stamp[rend.idx]]
    /\ UNCHANGED <<cpu, bus, ppu, buffers, curr_buffer, holder, poisoned, emu, build,
                   last, hist>>

\* drop(data)
RendUnlock ==
    /\ rend.pc = "unlock"
    /\ rend' = [rend EXCEPT !.pc = "load"]
    /\ holder' = [holder EXCEPT ![rend.idx] = "none"]
    /\ UNCHANGED <<cpu, bus, ppu, buffers, curr_buffer, poisoned, emu, build, last, hist>>

Next ==
    \/ EmuLock \/ EmuTick \/ EmuDrop \/ EmuSwap \/ EmuRecv
    \/ RendLoad \/ RendLock \/ RendRead \/ RendUnlock

Spec == Init /\ [][Next]_vars

-----------------------------------------------------------------------------
(* The handoff of frames between the two threads (Spec).                   *)

\* the step is a swap of the double buffer
Swapped == curr_buffer' # curr_buffer

\* the step wrote into buffer i: its content changed, or the PPU drew a
\* scan-line into it
WroteBuffer(i) ==
    buffers'[i] # buffers[i] \/ (i = emu.off /\ PpuTicked /\ Rendered(last'.events))

\* the renderer holds the lock of the buffer whose index it loaded
Reading == rend.pc \in {"read", "unlock"}

\* C8: the emulator thread writes only into the buffer that the index does not
\* select at the time of the write, holding its lock; the index changes only in
\* swap, by one modulo 2, when the emulator holds no lock.
C8_OffBufferOnly ==
    [][/\ \A i \in 0 .. 1 : WroteBuffer(i) => (i # curr_buffer /\ holder[i] = "emu")
       /\ Swapped =>
            /\ emu.pc = "swap" /\ emu'.pc = "recv"
            /\ curr_buffer' = (curr_buffer + 1) % 2
            /\ \A i \in 0 .. 1 : holder[i] # "emu"]_vars

\* after a swap, the PPU drew into the off buffer while the renderer held the
\* lock of the current one
C8_Witness ==
    /\ last.kind = "emu" /\ Rendered(last.events)
    /\ hist.published >= 1
    /\ emu.pc = "run" /\ emu.off # curr_buffer
    /\ holder[emu.off] = "emu" /\ holder[curr_buffer] = "rend"
    /\ buffers[emu.off] # FrameBuffer_default

\* C9 as stated: the renderer never holds or reads a frame that is partly
\* rendered, and when a swap happens while it holds a buffer, that buffer is the
\* frame published before the swap.
C9_Original ==
    [][/\ Reading' => (hist'.stamp[rend'.idx].done /\ rend'.seen.done)
       /\ (Swapped /\ Reading) => hist.stamp[rend.idx].frame = hist.published]_vars

\* C9 (amended): the renderer never holds or reads a frame that is partly
\* rendered, and when a swap happens while it holds a buffer, that buffer is
\* either the frame published before the swap or the frame the swap publishes.
C9_CompleteFrame ==
    [][/\ Reading' => (hist'.stamp[rend'.idx].done /\ rend'.seen.done)
       /\ (Swapped /\ Reading) =>
            hist.stamp[rend.idx].frame \in {hist.published, hist.published + 1}]_vars

\* the renderer has read, through an index loaded two swaps earlier, the frame
\* that a swap published while it was reading
C9_Witness ==
    /\ rend.pc = "unlock" /\ rend.swaps >= 1
    /\ rend.seen.done /\ rend.seen.frame = hist.published
    /\ hist.published >= 2
    /\ rend.idx = curr_buffer

\* C10 as stated: once cpu.stop is true, no CPU.tick and no PPU.tick is made.
C10_Original == [][cpu.stop => ~(CpuTicked \/ PpuTicked)]_vars

\* the loop has gone on ticking the CPU and the PPU after STOP, up to a swap
C10_Witness ==
    /\ cpu.stop /\ hist.stopped_ticks >= 1
    /\ hist.published >= 1


-----------------------------------------------------------------------------
(* The stack primitives on their own: write_stack_16 and get_stack_16 are   *)
(* applied to a bus and a stack pointer, and the CPU executes CALL 0x1234   *)
(* placed at 0x0100 (with RET at 0x1234) from a stack pointer of the same   *)
(* choices; SP is a public field of the CPU.                                *)

MaxStackOps == 2

MaxCallTicks == 2

\* stack pointers in HRAM, work RAM, VRAM and OAM, across the two work RAM
\* banks, next to IF, below work RAM, in the unbacked range, and 0 and 1
StackPointers ==
    {65534, 65410, 53249, 49154, 32770, 65026, 65297, 49153, 57346, 0, 1}

StackWords == {0, 1, 255, 256, 259, 4660, 43981, 65535}

CallRom == Place(Place(Empty, 256, <<205, 52, 18>>), 4660, <<201>>)

InitStack ==
    \E sp \in StackPointers, bld \in Builds :
        InitAll([CPU_default EXCEPT !.SP = sp], MemoryBus_new(CallRom), bld, NoTick)

\* what a stack operation that came out as st leaves behind: sp0 is SP before
\* the operation, pushed the word of the push (of the push before, for a pop),
\* push_sp SP before that push, word the word a pop returned
StackOpEffect(st, kind, pushed, push_sp, word) ==
    /\ cpu' = [cpu EXCEPT !.SP = st.sp]
    /\ bus' = st.bus
    /\ last' = [kind |-> kind, sp0 |-> cpu.SP, pushed |-> pushed, push_sp |-> push_sp,
                word |-> word, panic |-> st.panic]
    /\ emu' = IF st.panic THEN [emu EXCEPT !.pc = "panicked"] ELSE emu
    /\ hist' = [hist EXCEPT !.requests = @ + 1]
    /\ UNCHANGED <<ppu, buffers, curr_buffer, holder, poisoned, rend, build>>

\* memory_bus.write_stack_16(&mut cpu.SP, word)
StackPush ==
    \E word \in StackWords :
        /\ emu.pc # "panicked"
        /\ hist.requests < MaxStackOps
        /\ StackOpEffect(write_stack_16(bus, cpu.SP, word), "push", word, cpu.SP, PANIC)

\* what get_stack_16 gave, as a stack operation's outcome
Popped(st) == [sp |-> st.sp, bus |-> bus, panic |-> st.panic]

PopEffect(st) ==
    StackOpEffect(Popped(st), "pop",
                  IF last.kind = "push" THEN last.pushed ELSE PANIC,
                  IF last.kind = "push" THEN last.push_sp ELSE PANIC,
                  st.word)

\* memory_bus.get_stack_16(&mut cpu.SP)
StackPop ==
    /\ emu.pc # "panicked"
    /\ hist.requests < MaxStackOps
    /\ PopEffect(get_stack_16(bus, cpu.SP))

\* CPU::tick on the CALL and on what follows it
StackTick == hist.ticks < MaxCallTicks /\ CpuTick

NextStack == StackPush \/ StackPop \/ StackTick

SpecStack == InitStack /\ [][NextStack]_vars

\* the addresses the bus backs with a RAM array: VRAM, work RAM, OAM, HRAM
WritableRam(addr) ==
    \/ addr \in 32768 .. 40959
    \/ addr \in 49152 .. 57343
    \/ addr \in 65024 .. 65183
    \/ addr \in 65408 .. 65534

\* the two bytes a push at sp stores lie in RAM
StackInRam(sp) == WritableRam((sp + 65535) % 65536) /\ WritableRam((sp + 65534) % 65536)

\* C11: a pop that follows a push of word w at a stack pointer whose two stack
\* bytes (sp-1 and sp-2) lie in writable RAM returns w and leaves SP as it was
\* before the push.
C11_StackLaw ==
    (last.kind = "pop" /\ last.pushed # PANIC /\ StackInRam(last.push_sp))
        => (~last.panic /\ last.word = last.pushed /\ cpu.SP = last.push_sp)

\* a word with two different bytes was pushed in work RAM and popped again
C11_Witness ==
    /\ last.kind = "pop" /\ last.pushed = 4660 /\ last.push_sp = 49154
    /\ last.word = 4660 /\ cpu.SP = 49154

\* the high and the low byte of a word
HighByte(word) == word \div 256

LowByte(word) == word % 256

\* C12 as stated: a push of w at sp stores the high byte of w at sp-1 and the
\* low byte at sp-2 and leaves SP = sp-2; CALL 0x1234 at PC = 0x0100 with
\* SP = 0xFFFE leaves 0x01 at 0xFFFD, 0x03 at 0xFFFC, SP = 0xFFFC, PC = 0x1234.
C12_Original ==
    /\ (last.kind = "push" /\ StackInRam(last.sp0))
        => /\ get_u8(bus, (last.sp0 + 65535) % 65536) = HighByte(last.pushed)
           /\ get_u8(bus, (last.sp0 + 65534) % 65536) = LowByte(last.pushed)
           /\ cpu.SP = (last.sp0 + 65534) % 65536
    /\ (last.kind = "cpu" /\ last.entry.PC = 256 /\ last.entry.SP = 65534)
        => /\ get_u8(bus, 65533) = 1 /\ get_u8(bus, 65532) = 3
           /\ cpu.SP = 65532 /\ cpu.PC = 4660

\* the CALL was executed from SP = 0xFFFE: the low byte of the return address
\* is at 0xFFFD and the high byte at 0xFFFC
C12_Witness ==
    /\ last.kind = "cpu" /\ last.entry.PC = 256 /\ last.entry.SP = 65534
    /\ get_u8(bus, 65533) = 3 /\ get_u8(bus, 65532) = 1
    /\ cpu.SP = 65532 /\ cpu.PC = 4660


-----------------------------------------------------------------------------
(* The CPU executing short programs from reset: a stack pointer is loaded,  *)
(* then either RST n is executed, or a word is loaded into BC, pushed, and  *)
(* popped into AF.                                                         *)

\* LD SP,0xFFFE; RST n
RstRom(n) == Place(Empty, 256, <<49, 254, 255, 199 + 8 * n>>)

\* LD SP,0xD000; LD BC,word; PUSH BC; POP AF
PopAfRom(word) ==
    Place(Empty, 256, <<49, 0, 208, 1, word % 256, word \div 256, 197, 241>>)

PoppedWords == {0, 15, 4863, 43792, 65535}

ExecRoms == {RstRom(n) : n \in 0 .. 7} \cup {PopAfRom(w) : w \in PoppedWords}

InitExec == \E rom \in ExecRoms, bld \in Builds : InitWith(rom, bld)

NextExec == CpuTick

SpecExec == InitExec /\ [][NextExec]_vars

\* C13 as stated: whatever instructions have been executed since reset, the low
\* four bits of the flags register are zero (POP AF masks the byte it loads).
C13_Original == cpu.Flags % 16 = 0

\* POP AF has been executed and has loaded a byte with low bits set into F
C13_Witness ==
    /\ last.kind = "cpu" /\ ~last.panic /\ last.obs.fetched = Instr("Pop", 3, 0)
    /\ cpu.Flags = 255 /\ cpu.Accumulator = 18

\* C14 as stated: the CPU as constructed has A = F = B = C = D = E = H = L = 0,
\* SP = 0xFFFE, PC = 0x0100, halted = false and IME = false.
C14_Original ==
    hist.ticks = 0 =>
        /\ \A r \in {"Accumulator", "Flags", "B", "C", "D", "E", "H", "L"} : cpu[r] = 0
        /\ cpu.SP = 65534 /\ cpu.PC = 256
        /\ ~cpu.halted /\ ~cpu.IME

\* the CPU as constructed: every register 0, SP = 0, PC = 0x0100
C14_Witness ==
    /\ hist.ticks = 0
    /\ \A r \in {"Accumulator", "Flags", "B", "C", "D", "E", "H", "L"} : cpu[r] = 0
    /\ cpu.SP = 0 /\ cpu.PC = 256 /\ ~cpu.halted /\ ~cpu.IME /\ ~cpu.stop

\* C20 as stated: a tick that executes RST n pushes the address of the
\* instruction that follows it and sets PC to n << 3, for every n in 0..7.
C20_Original ==
    (last.kind = "cpu" /\ ~last.panic /\ last.obs.fetched.op = "Reset")
        => /\ get_stack_16(bus, cpu.SP).word = last.entry.PC + 1
           /\ cpu.SP = (last.entry.SP + 65534) % 65536
           /\ cpu.PC = last.obs.fetched.a * 8

\* RST 7 has been executed: the following address is on the stack and PC is 7
C20_Witness ==
    /\ last.kind = "cpu" /\ ~last.panic /\ last.obs.fetched = Instr("Reset", 7, 0)
    /\ get_stack_16(bus, cpu.SP).word = last.entry.PC + 1
    /\ cpu.PC = 7


-----------------------------------------------------------------------------
(* The decoder on its own: Instruction::parse applied to four bytes, every  *)
(* opcode with a choice of operand bytes, and every byte after 0xCB.        *)

\* second bytes: 0, 1, a value that is a HALT opcode, the i8 extremes, 0xFF
SecondBytes == {0, 1, 118, 127, 128, 255}

ThirdBytes == {0, 52, 255}

DecodeInputs ==
    {<<opcode, b2, b3, 0>> : opcode \in 0 .. 255, b2 \in SecondBytes, b3 \in ThirdBytes}
    \cup {<<203, b2, 0, 0>> : b2 \in 0 .. 255}

InitDecode ==
    \E input \in DecodeInputs :
        InitAll(CPU_default, MemoryBus_new(Empty), "release",
                [kind |-> "input", input |-> input])

\* what Instruction::parse gave for an input: the instruction, the bytes taken
\* from the input (its length less that of the rest returned), the Err
\* returned ("none": with four bytes no nom parser runs out of input), and
\* whether the call aborted
Decoded(input, instr) ==
    [kind |-> "decoded", input |-> input, instr |-> instr,
     taken |-> IF instr.op = "Illegal" THEN 0 ELSE taken(input),
     error |-> "none", panic |-> instr.op = "Illegal"]

\* one call of Instruction::parse
Decode ==
    /\ last.kind = "input"
    /\ last' = Decoded(last.input, parse(last.input))
    /\ emu' = IF parse(last.input).op = "Illegal" THEN [emu EXCEPT !.pc = "panicked"] ELSE emu
    /\ UNCHANGED <<cpu, bus, ppu, buffers, curr_buffer, holder, poisoned, rend, build, hist>>

NextDecode == Decode

SpecDecode == InitDecode /\ [][NextDecode]_vars

\* the opcodes that are not instructions
IllegalOpcodes == {211, 219, 221, 227, 228, 235, 236, 237, 244, 252, 253}

\* C15 as stated: decoding bytes whose first byte is not a legal opcode fails
\* with an IllegalOpcode error value; it yields no instruction and does not
\* abort the program.
C15_Original ==
    (last.kind = "decoded" /\ last.input[1] \in IllegalOpcodes)
        => (~last.panic /\ last.error = "IllegalOpcode")

\* an illegal opcode was decoded: the call aborted and returned nothing
C15_Witness ==
    /\ last.kind = "decoded" /\ last.input[1] = 211
    /\ last.panic /\ last.error = "none" /\ emu.pc = "panicked"

\* C16 as stated: for every legal opcode decoding succeeds and the number of
\* bytes taken from the input is the instruction's byte_len, which is 1, 2 or
\* 3; STOP takes two bytes.
C16_Original ==
    (last.kind = "decoded" /\ last.input[1] \notin IllegalOpcodes)
        => /\ ~last.panic
           /\ byte_len(last.instr) \in 1 .. 3
           /\ last.taken = byte_len(last.instr)
           /\ last.instr.op = "Stop" => last.taken = 2

\* STOP was decoded: one byte taken, byte_len 2
C16_Witness ==
    /\ last.kind = "decoded" /\ last.input[1] = 16 /\ ~last.panic
    /\ last.instr = Instr("Stop", 0, 0)
    /\ last.taken = 1 /\ byte_len(last.instr) = 2

\* C17: 0x76 decodes to HALT, never to a load; every other byte b of
\* 0x40..0x7F decodes to the load with destination b[5:3] and source b[2:0].
C17_HaltNotLoad ==
    (last.kind = "decoded" /\ last.input[1] \in 64 .. 127)
        => /\ ~last.panic
           /\ last.input[1] = 118 => last.instr = Instr("Halt", 0, 0)
           /\ last.input[1] # 118 =>
                last.instr = Instr("Load", (last.input[1] \div 8) % 8, last.input[1] % 8)

\* 0x76 was decoded, to HALT
C17_Witness ==
    /\ last.kind = "decoded" /\ last.input[1] = 118
    /\ last.instr = Instr("Halt", 0, 0) /\ last.taken = 1

\* the byte of an i8 operand, and the two bytes of a u16 operand, low first
ByteOf(rel) == (rel + 256) % 256

WordBytes(word) == <<word % 256, word \div 256>>

\* the canonical encoder: the opcode the operand selectors make up, then the
\* operand bytes; STOP is 0x10 0x00
encode(i) ==
    CASE i.op = "Nop" -> <<0>>
      [] i.op = "LoadSP" -> <<8>> \o WordBytes(i.a)
      [] i.op = "Stop" -> <<16, 0>>
      [] i.op = "JumpRelative" -> <<24, ByteOf(i.a)>>
      [] i.op = "JumpRelativeConditional" -> <<32 + 8 * i.a, ByteOf(i.b)>>
      [] i.op = "LoadImmediate16" -> <<1 + 16 * i.a>> \o WordBytes(i.b)
      [] i.op = "AddHLRegister" -> <<9 + 16 * i.a>>
      [] i.op = "LoadIndirectA" -> <<2 + 16 * i.a>>
      [] i.op = "LoadAIndirect" -> <<10 + 16 * i.a>>
      [] i.op = "Increment16" -> <<3 + 16 * i.a>>
      [] i.op = "Decrement16" -> <<11 + 16 * i.a>>
      [] i.op = "Increment" -> <<4 + 8 * i.a>>
      [] i.op = "Decrement" -> <<5 + 8 * i.a>>
      [] i.op = "LoadImmediate" -> <<6 + 8 * i.a, i.b>>
      [] i.op = "AccumulatorFlag" -> <<7 + 8 * i.a>>
      [] i.op = "Halt" -> <<118>>
      [] i.op = "Load" -> <<64 + 8 * i.a + i.b>>
      [] i.op = "Alu" -> <<128 + 8 * i.a + i.b>>
      [] i.op = "RetConditional" -> <<192 + 8 * i.a>>
      [] i.op = "LoadHighPageA" -> <<224, i.a>>
      [] i.op = "AddSp" -> <<232, ByteOf(i.a)>>
      [] i.op = "LoadAHighPage" -> <<240, i.a>>
      [] i.op = "LoadHLSP" -> <<248, ByteOf(i.a)>>
      [] i.op = "Pop" -> <<193 + 16 * i.a>>
      [] i.op = "Ret" -> <<201>>
      [] i.op = "RetInterrupt" -> <<217>>
      [] i.op = "JumpHL" -> <<233>>
      [] i.op = "LoadSPHL" -> <<249>>
      [] i.op = "JumpConditional" -> <<194 + 8 * i.a>> \o WordBytes(i.b)
      [] i.op = "LoadHighPageIndirectA" -> <<226>>
      [] i.op = "LoadIndirectImmediateA" -> <<234>> \o WordBytes(i.a)
      [] i.op = "LoadAHighPageIndirect" -> <<242>>
      [] i.op = "LoadAIndirectImmediate" -> <<250>> \o WordBytes(i.a)
      [] i.op = "Jump" -> <<195>> \o WordBytes(i.a)
      [] i.op = "Bitwise" -> <<203, 8 * i.a + i.b>>
      [] i.op = "Bit" -> <<203, 64 + 8 * i.a + i.b>>
      [] i.op = "ResetBit" -> <<203, 128 + 8 * i.a + i.b>>
      [] i.op = "SetBit" -> <<203, 192 + 8 * i.a + i.b>>
      [] i.op = "DisableInterrupts" -> <<243>>
      [] i.op = "EnableInterrupts" -> <<251>>
      [] i.op = "CallConditional" -> <<196 + 8 * i.a>> \o WordBytes(i.b)
      [] i.op = "Call" -> <<205>> \o WordBytes(i.a)
      [] i.op = "Push" -> <<197 + 16 * i.a>>
      [] i.op = "AluImmediate" -> <<198 + 8 * i.a, i.b>>
      [] i.op = "Reset" -> <<199 + 8 * i.a>>

\* an encoding followed by zero bytes, as four bytes
Padded(bytes) == [k \in 1 .. 4 |-> IF k <= Len(bytes) THEN bytes[k] ELSE 0]

\* an instruction was decoded
DecodedOk == last.kind = "decoded" /\ ~last.panic

\* C18 as stated: decoding the canonical encoding of an instruction returns
\* that instruction, and no two distinct byte sequences decode to the same
\* instruction: the bytes that make up a decoded instruction (byte_len of
\* them) are its canonical encoding.
C18_Original ==
    DecodedOk
        => /\ parse(Padded(encode(last.instr))) = last.instr
           /\ SubSeq(last.input, 1, byte_len(last.instr)) = encode(last.instr)

\* C18 (amended): decoding the canonical encoding of an instruction returns
\* that instruction, and byte sequences that decode to the same instruction
\* agree in every byte the decoder reads; they may differ in the second byte
\* of STOP, which is not read.
C18_RoundTrip ==
    DecodedOk
        => /\ parse(Padded(encode(last.instr))) = last.instr
           /\ Len(encode(last.instr)) = byte_len(last.instr)
           /\ SubSeq(last.input, 1, last.taken) = SubSeq(encode(last.instr), 1, last.taken)
           /\ last.instr.op # "Stop"
                => SubSeq(last.input, 1, byte_len(last.instr)) = encode(last.instr)

\* a three-byte instruction with two different operand bytes was decoded and
\* its canonical encoding is the bytes it was decoded from
C18_Witness ==
    /\ DecodedOk
    /\ last.instr = Instr("Jump", 13313, 0) /\ last.input = <<195, 1, 52, 0>>
    /\ encode(last.instr) = <<195, 1, 52>> /\ last.taken = 3

\* the CB-prefixed variant that the top two bits of the second byte select
CbVariant(b) == <<"Bitwise", "Bit", "ResetBit", "SetBit">>[(b \div 64) + 1]

\* C19: for each of the 256 bytes b after 0xCB decoding succeeds, takes two
\* bytes, and yields the bitwise operation b[5:3] on register b[2:0] when
\* b[7:6] = 00, BIT when 01, RES when 10 and SET when 11, with bit number
\* b[5:3] and register b[2:0].
C19_CbPrefix ==
    (last.kind = "decoded" /\ last.input[1] = 203)
        => /\ ~last.panic
           /\ last.taken = 2 /\ byte_len(last.instr) = 2
           /\ last.instr = Instr(CbVariant(last.input[2]), (last.input[2] \div 8) % 8,
                                 last.input[2] % 8)

\* CB 9D was decoded: RES 3,L
C19_Witness ==
    /\ last.kind = "decoded" /\ last.input[1] = 203 /\ last.input[2] = 157
    /\ last.instr = Instr("ResetBit", 3, 5) /\ last.taken = 2

------------------------------------------------------------------------------
(* The CPU executing a jump, call or return from reset: the stack pointer is *)
(* loaded, the flags are set up by XOR A (Z) and SCF (C), and then one       *)
(* relative jump, or one conditional jump, call or return, is executed.      *)

\* the instructions that leave Z and C as wanted
FlagSetups == {<<>>, <<175>>, <<55>>, <<175, 55>>}

\* the offsets of the relative jumps, as bytes
RelBytes == {128, 129, 254, 255, 0, 1, 127}

\* LD SP,0xFFFE; the set-up; the instruction
BranchRom(setup, instr) == Place(Empty, 256, <<49, 254, 255>> \o setup \o instr)

\* JR cc by -128 and by 5; JP cc, CALL cc to 0x0150; RET cc
ConditionalInstrs ==
    UNION {{<<32 + 8 * cc, 128>>, <<32 + 8 * cc, 5>>,
            <<194 + 8 * cc, 80, 1>>,
            <<196 + 8 * cc, 80, 1>>,
            <<192 + 8 * cc>>} : cc \in 0 .. 3}

BranchRoms ==
    {BranchRom(<<>>, <<24, r>>) : r \in RelBytes}
        \cup {BranchRom(s, i) : s \in FlagSetups, i \in ConditionalInstrs}

InitBranch == \E rom \in BranchRoms, bld \in Builds : InitWith(rom, bld)

NextBranch == CpuTick

SpecBranch == InitBranch /\ [][NextBranch]_vars

\* the last tick went through to the match on the instruction it fetched
Matched == last.kind = "cpu" /\ last.obs.hi = 0 /\ ~last.obs.mid.halted

\* the last tick executed JR r8, or JR cc,r8 with its condition true
RelativeJumpTaken ==
    /\ Matched /\ ~last.panic
    /\ \/ last.obs.fetched.op = "JumpRelative"
       \/ /\ last.obs.fetched.op = "JumpRelativeConditional"
          /\ check_condition(last.obs.mid, last.obs.fetched.a)

\* the signed offset of the relative jump fetched
RelativeOffset ==
    IF last.obs.fetched.op = "JumpRelative" THEN last.obs.fetched.a ELSE last.obs.fetched.b

\* C21 as stated: after JR r8, and after JR cc,r8 when the condition holds, PC
\* is the address of the next instruction plus the signed offset, modulo 2^16,
\* for every offset from -128 to 127.
C21_Original ==
    RelativeJumpTaken => cpu.PC = (last.obs.pc_fetch + RelativeOffset + 65536) % 65536

\* a relative jump by -2 was taken, back onto itself
C21_Witness ==
    /\ RelativeJumpTaken /\ RelativeOffset = 0 - 2
    /\ cpu.PC = last.entry.PC

ConditionalOps ==
    {"JumpRelativeConditional", "JumpConditional", "CallConditional", "RetConditional"}

\* C22 as stated: a tick that executes a conditional jump, call or return
\* returns the taken cost of the instruction when its condition holds and the
\* not-taken cost when it does not.
C22_Original ==
    (Matched /\ last.obs.fetched.op \in ConditionalOps)
        => /\ ~last.panic
           /\ last.ret = ticks(last.obs.fetched,
                               check_condition(last.obs.mid, last.obs.fetched.a))

\* JP Z,a16 was executed with Z set; the tick returned the taken cost
C22_Witness ==
    /\ Matched /\ ~last.panic
    /\ last.obs.fetched = Instr("JumpConditional", 1, 336)
    /\ get_flag(last.obs.mid, "Z") /\ cpu.PC = 336 /\ last.ret = 4

------------------------------------------------------------------------------
(* The memory bus alone: bytes are read and written through get_u8 and       *)
(* write_u8 at addresses of the work RAM, of the range above it, of the      *)
(* range behind the OAM and of the I/O registers.                            *)

MaxBusOps == 3

\* 0xC000, 0xDDFF, 0xE000, 0xFDFF, 0xFEA0, 0xFEFF, 0xFF00, 0xFF01, 0xFF41,
\* 0xFF7F, LCDC and LY
BusAddrs ==
    {49152, 56831, 57344, 65023, 65184, 65279, 65280, 65281, 65345, 65407, LCDC, LCD_Y}

BusBytes == {0, 66, 128, 145, 255}

InitBus == InitAll(CPU_default, MemoryBus_new(Empty), "release", NoTick)

\* what an access of the bus leaves behind: byte is the byte written or read,
\* ly the line counter before the access
BusOpEffect(b, kind, addr, byte, panic) ==
    /\ bus' = b
    /\ last' = [kind |-> kind, addr |-> addr, byte |-> byte, ly |-> get_u8(bus, LCD_Y),
                panic |-> panic]
    /\ emu' = IF panic THEN [emu EXCEPT !.pc = "panicked"] ELSE emu
    /\ hist' = [hist EXCEPT !.requests = @ + 1]
    /\ UNCHANGED <<cpu, ppu, buffers, curr_buffer, holder, poisoned, rend, build>>

\* memory_bus.write_u8(addr, byte)
BusWrite ==
    \E addr \in BusAddrs, byte \in BusBytes :
        /\ emu.pc # "panicked"
        /\ hist.requests < MaxBusOps
        /\ BusOpEffect(write_u8(bus, addr, byte), "write", addr, byte, WritePanics(addr))

\* what get_u8 returned, as an access's outcome
BusReadEffect(addr, byte) ==
    BusOpEffect(bus, "read", addr, IF byte = PANIC THEN 0 ELSE byte, byte = PANIC)

\* memory_bus.get_u8(addr)
BusRead ==
    \E addr \in BusAddrs :
        /\ emu.pc # "panicked"
        /\ hist.requests < MaxBusOps
        /\ BusReadEffect(addr, get_u8(bus, addr))

NextBus == BusWrite \/ BusRead

SpecBus == InitBus /\ [][NextBus]_vars

EchoRam(addr) == addr \in 57344 .. 65023

\* C23 as stated: a read of an address a in 0xE000..0xFDFF returns what a read
\* of a - 0x2000 returns, and a byte written to a is read back at a - 0x2000.
C23_Original ==
    (last.kind \in {"read", "write"} /\ EchoRam(last.addr))
        => /\ ~last.panic
           /\ last.byte = get_u8(bus, last.addr - 8192)

\* an address of the range above the work RAM was accessed
C23_Witness ==
    /\ last.kind = "write" /\ last.addr = 57344 /\ last.byte = 66 /\ last.panic

\* C24: a write to LCDC of a byte with bit 7 clear sets LY to 0, and a write
\* of a byte with bit 7 set leaves LY as it was.
C24_LcdcWrite ==
    (last.kind = "write" /\ last.addr = LCDC)
        => /\ ~last.panic
           /\ get_u8(bus, LCDC) = last.byte
           /\ get_u8(bus, LCD_Y) = IF get_bit(last.byte, 7) THEN last.ly ELSE 0

\* LY was 66 when a byte with bit 7 clear was written to LCDC, and is 0 now
C24_Witness ==
    /\ last.kind = "write" /\ last.addr = LCDC /\ last.byte = 66 /\ last.ly = 66
    /\ get_u8(bus, LCD_Y) = 0

\* the joypad register, the I/O registers the bus does not implement, and the
\* prohibited range behind the OAM
StubAddr(addr) ==
    \/ addr \in 65184 .. 65279
    \/ addr \in 65280 .. 65407 /\ addr # IF_REG
                               /\ addr \notin {LCDC, SCROLL_Y, SCROLL_X, LCD_Y, 65349, PALLETE,
                                               65354, 65355}

\* C25 as stated: a read of the joypad register, of an unimplemented I/O
\* register or of an address in 0xFEA0..0xFEFF returns 0xFF and does not fail.
C25_Original ==
    (last.kind = "read" /\ StubAddr(last.addr)) => ~last.panic /\ last.byte = 255

\* the joypad register was read
C25_Witness == last.kind = "read" /\ last.addr = 65280 /\ ~last.panic /\ last.byte = 0

------------------------------------------------------------------------------
(* The arithmetic instructions. A CPU whose registers hold an operand, and   *)
(* a ROM with one instruction at 0x0100, are handed to CPU::tick; INC r,     *)
(* DEC r, ADD HL,rr and ADC A,r are also handed to the handler of           *)
(* cpu/alu.rs.                                                               *)

\* ALU::increment and ALU::decrement of cpu/alu.rs set the same flags
step_flags(c, value, new_value) ==
    AluResult(set_flag(set_flag(set_flag(c, "Z", new_value = 0), "N", FALSE),
                       "H", (c.Accumulator % 16) + (value % 16) > 15),
              new_value)

increment(c, value) == step_flags(c, value, (value + 1) % 256)

decrement(c, value) == step_flags(c, value, (value + 255) % 256)

read_16(c, register) == IF register = 3 THEN c.SP ELSE PairValue(c, register)

\* ALU::add_16: the half carry is taken from the low 11 bits
add_16(c, value) ==
    AluResult(set_flag(set_flag(set_flag(c, "C", get_hl(c) + value > 65535), "N", FALSE),
                       "H", (get_hl(c) % 2048) + (value % 2048) > 2047),
              (get_hl(c) + value) % 65536)

\* ALU::adc of cpu/alu.rs: one addition of the value and the carry
adc_with(c, value, carry) ==
    AluResult(set_flag(set_flag(set_flag(set_flag(c, "Z",
                                                  (c.Accumulator + value + carry) % 256 = 0),
                                         "N", FALSE),
                                "H", (c.Accumulator % 16) + (value % 16) + carry > 15),
                       "C", c.Accumulator + value + carry > 255),
              (c.Accumulator + value + carry) % 256)

adc(c, value) == adc_with(c, value, IF get_flag(c, "C") THEN 1 ELSE 0)

\* ALU::handle_op of cpu/alu.rs: ADC is ALU::adc, the other operations are as
\* in cpu.rs (SBC is left out)
alu_handle_op(c, op, value) ==
    IF op = 1 THEN StoreA(adc(c, value)) ELSE handle_op(c, op, value)

\* the adjustment of decimal_adjust_after_addition: 0x60 and 0x06 from C and
\* H, and after an addition also from the value
daa_adjust(c, value) ==
    (IF get_flag(c, "C") \/ (~get_flag(c, "N") /\ value > 153) THEN 96 ELSE 0)
        + (IF get_flag(c, "H") \/ (~get_flag(c, "N") /\ value % 16 > 9) THEN 6 ELSE 0)

daa_adjusted(c, new_value, adjust) ==
    AluResult(set_flag(set_flag(set_flag(c, "C", adjust >= 96), "H", FALSE),
                       "Z", new_value = 0),
              new_value)

\* ALU::decimal_adjust_after_addition of cpu/alu.rs
decimal_adjust_after_addition(c, value) ==
    daa_adjusted(c,
                 IF get_flag(c, "N") THEN (value + 256 - daa_adjust(c, value)) % 256
                 ELSE (value + daa_adjust(c, value)) % 256,
                 daa_adjust(c, value))

\* the result r of an ALU operation stored in a register of the CPU
stored(register, r) == [r.cpu EXCEPT ![Reg8Field(register)] = r.value]

\* the arms of handle_instruction (cpu/alu.rs) for INC r, DEC r, ADD HL,rr,
\* the 8-bit operations on A and a register, and DAA
alu_handle_instruction(c, instr) ==
    CASE instr.op = "Increment" -> stored(instr.a, increment(c, c[Reg8Field(instr.a)]))
      [] instr.op = "Decrement" -> stored(instr.a, decrement(c, c[Reg8Field(instr.a)]))
      [] instr.op = "AddHLRegister" ->
            write_16(add_16(c, read_16(c, instr.a)).cpu, "H", "L",
                     add_16(c, read_16(c, instr.a)).value)
      [] instr.op = "Alu" -> alu_handle_op(c, instr.a, c[Reg8Field(instr.b)])
      [] instr.op = "AccumulatorFlag" /\ instr.a = 4 ->
            StoreA(decimal_adjust_after_addition(c, c.Accumulator))

MaxAluTicks == 1

AluValues == 0 .. 255

AluAccumulators == {0, 15, 255}

AluFlags == {0, 16, 240}

BitOperands == {0, 1, 85, 128, 170, 255}

AddWords == {0, 1, 2047, 2048, 4095, 4096, 32768, 61441, 65535}

\* SLA, SRA and SRL on B and on (HL)
ShiftPrograms == {<<203, 32>>, <<203, 40>>, <<203, 56>>, <<203, 38>>, <<203, 46>>, <<203, 62>>}

\* RLCA, RRCA, RLA, RRA
RotatePrograms == {<<7>>, <<15>>, <<23>>, <<31>>}

\* INC B, DEC B, INC (HL), DEC (HL)
StepPrograms == {<<4>>, <<5>>, <<52>>, <<53>>}

\* BIT n,B and BIT n,(HL)
BitPrograms == {<<203, 64 + 8 * n + r>> : n \in 0 .. 7, r \in {0, 6}}

\* SET n,B, SET n,(HL), RES n,B and RES n,(HL)
SetResPrograms == {<<203, k + 8 * n + r>> : k \in {128, 192}, n \in 0 .. 7, r \in {0, 6}}

\* ADC A,B
AdcPrograms == {<<136>>}

AdcOperands == {0, 1, 15, 16, 127, 128, 240, 255}

AdcFlags == {0, 16, 224, 240}

\* ADD HL,BC; ADD HL,DE; ADD HL,HL; ADD HL,SP
AddHLPrograms == {<<9>>, <<25>>, <<41>>, <<57>>}

\* the operand v is in A or B, in the byte at 0xC000 HL points to, and in C as well,
\* which none of the programs changes
AluCpu(a, v, f) ==
    [CPU_default EXCEPT !.Accumulator = a, !.B = v, !.C = v, !.H = 192, !.L = 0, !.Flags = f]

AluBus(program, v) == write_u8(MemoryBus_new(Place(Empty, 256, program)), 49152, v)

AddCpu(hl, rr, f) ==
    [CPU_default EXCEPT !.H = hl \div 256, !.L = hl % 256, !.B = rr \div 256, !.C = rr % 256,
                        !.D = rr \div 256, !.E = rr % 256, !.SP = rr, !.Flags = f]

InitAlu ==
    \E bld \in Builds :
        \/ \E p \in ShiftPrograms \cup RotatePrograms, v \in AluValues, f \in AluFlags :
                InitAll(AluCpu(v, v, f), AluBus(p, v), bld, NoTick)
        \/ \E p \in StepPrograms, v \in AluValues, a \in AluAccumulators, f \in AluFlags :
                InitAll(AluCpu(a, v, f), AluBus(p, v), bld, NoTick)
        \/ \E p \in BitPrograms \cup SetResPrograms, v \in BitOperands, f \in AluFlags :
                InitAll(AluCpu(v, v, f), AluBus(p, v), bld, NoTick)
        \/ \E p \in AdcPrograms, a \in AluValues, v \in AdcOperands, f \in AdcFlags :
                InitAll(AluCpu(a, v, f), AluBus(p, v), bld, NoTick)
        \/ \E p \in AddHLPrograms, hl \in AddWords, rr \in AddWords, f \in AluFlags :
                InitAll(AddCpu(hl, rr, f), AluBus(p, 0), bld, NoTick)

\* CPU::tick on the instruction
AluTick == hist.ticks < MaxAluTicks /\ hist.requests = 0 /\ CpuTick

\* what handle_instruction of cpu/alu.rs leaves of the instruction fetched as f
AluHandled(f) ==
    /\ cpu' = alu_handle_instruction(f.cpu, f.instr)
    /\ last' = [kind |-> "alu", entry |-> EntryOf(cpu, bus), ret |-> ticks(f.instr, FALSE),
                panic |-> FALSE, obs |-> tick_obs(f, NotDispatched(f.cpu, bus)),
                events |-> <<>>, t |-> 0]
    /\ hist' = [hist EXCEPT !.requests = @ + 1]
    /\ UNCHANGED <<bus, ppu, buffers, curr_buffer, holder, poisoned, emu, rend, build>>

AluHandles(f) ==
    /\ ~f.panic
    /\ \/ f.instr.op \in {"Increment", "Decrement"} /\ f.instr.a # 6
       \/ f.instr.op = "AddHLRegister"
       \/ f.instr.op = "Alu" /\ f.instr.a # 3 /\ f.instr.b # 6
       \/ f.instr = Instr("AccumulatorFlag", 4, 0)
    /\ AluHandled(f)

\* the instruction at PC is fetched and handed to handle_instruction of cpu/alu.rs
AluHandleInstruction ==
    /\ emu.pc # "panicked"
    /\ hist.ticks = 0 /\ hist.requests = 0
    /\ AluHandles(next_instruction(cpu, bus, build))

NextAlu == AluTick \/ AluHandleInstruction

SpecAlu == InitAlu /\ [][NextAlu]_vars

\* the first instruction went through to tick's match, or to the handler
Handled ==
    /\ last.kind \in {"cpu", "alu"} /\ last.obs.hi = 0 /\ ~last.obs.mid.halted
    /\ last.entry.PC = 256

\* the operand the instruction found
Operand == last.obs.mid.C

ShiftResult(op, v) ==
    CASE op = 4 -> (2 * v) % 256
      [] op = 5 -> (v \div 2) + 128 * (v \div 128)
      [] op = 7 -> v \div 2

ShiftedOut(op, v) == IF op = 4 THEN v \div 128 = 1 ELSE v % 2 = 1

\* C26: SRA gives v shifted right by one with bit 7 kept, SRL v shifted right
\* by one with bit 7 clear, SLA v shifted left by one with bit 0 clear; C is
\* the bit shifted out, N and H are clear, and Z is set exactly when the
\* result is 0; for every 8-bit v.
C26_Shifts ==
    (Handled /\ last.obs.fetched.op = "Bitwise" /\ last.obs.fetched.a \in {4, 5, 7})
        => /\ ~last.panic
           /\ read_register(cpu, bus, last.obs.fetched.b)
                = ShiftResult(last.obs.fetched.a, Operand)
           /\ get_flag(cpu, "C") = ShiftedOut(last.obs.fetched.a, Operand)
           /\ ~get_flag(cpu, "N") /\ ~get_flag(cpu, "H")
           /\ get_flag(cpu, "Z") = (ShiftResult(last.obs.fetched.a, Operand) = 0)

\* SRA B was executed on 0xA7: B is 0xD3 and C is set
C26_Witness ==
    /\ Handled /\ ~last.panic /\ last.obs.fetched = Instr("Bitwise", 5, 0)
    /\ Operand = 167 /\ cpu.B = 211 /\ get_flag(cpu, "C") /\ ~get_flag(cpu, "Z")

\* C27 as stated: INC r and DEC r set Z from the result, N to 0 for INC and to
\* 1 for DEC, H from the low nibble of the old value of the target (0xF for
\* INC, 0x0 for DEC), and leave C as it was, whatever the accumulator holds.
C27_Original ==
    (Handled /\ last.obs.fetched.op \in {"Increment", "Decrement"})
        => /\ ~last.panic
           /\ get_flag(cpu, "Z") = (read_register(cpu, bus, last.obs.fetched.a) = 0)
           /\ get_flag(cpu, "N") = (last.obs.fetched.op = "Decrement")
           /\ get_flag(cpu, "H")
                = (Operand % 16 = IF last.obs.fetched.op = "Increment" THEN 15 ELSE 0)
           /\ get_flag(cpu, "C") = get_flag(last.obs.mid, "C")

\* INC B was executed on 0xFF
C27_Witness ==
    /\ Handled /\ ~last.panic /\ last.obs.fetched = Instr("Increment", 0, 0)
    /\ Operand = 255 /\ cpu.B = 0

\* C28 as stated: ADD HL,rr stores (HL + rr) mod 2^16 in HL, clears N, sets H
\* exactly when (HL & 0x0FFF) + (rr & 0x0FFF) > 0x0FFF and C exactly when the
\* sum overflows 16 bits, and leaves Z as it was.
C28_Original ==
    (Handled /\ last.obs.fetched.op = "AddHLRegister")
        => /\ ~last.panic
           /\ get_hl(cpu)
                = (get_hl(last.obs.mid) + read_16(last.obs.mid, last.obs.fetched.a)) % 65536
           /\ ~get_flag(cpu, "N")
           /\ get_flag(cpu, "H")
                = ((get_hl(last.obs.mid) % 4096)
                     + (read_16(last.obs.mid, last.obs.fetched.a) % 4096) > 4095)
           /\ get_flag(cpu, "C")
                = (get_hl(last.obs.mid) + read_16(last.obs.mid, last.obs.fetched.a) > 65535)
           /\ get_flag(cpu, "Z") = get_flag(last.obs.mid, "Z")

\* the handler added 0x0800 in BC to 0x0800 in HL
C28_Witness ==
    /\ Handled /\ last.kind = "alu" /\ last.obs.fetched = Instr("AddHLRegister", 0, 0)
    /\ get_hl(last.obs.mid) = 2048 /\ Operand = 0 /\ last.obs.mid.B = 8
    /\ get_hl(cpu) = 4096

\* C29 as stated: after RLCA, RRCA, RLA or RRA Z is 0, whatever A and the carry
\* were and also when the result is 0; N and H are 0 and C is the bit rotated
\* out of A.
C29_Original ==
    (Handled /\ ~last.panic /\ last.obs.fetched.op = "AccumulatorFlag"
             /\ last.obs.fetched.a \in 0 .. 3)
        => /\ ~get_flag(cpu, "Z") /\ ~get_flag(cpu, "N") /\ ~get_flag(cpu, "H")
           /\ get_flag(cpu, "C")
                = (IF last.obs.fetched.a \in {0, 2} THEN last.obs.mid.Accumulator \div 128 = 1
                   ELSE last.obs.mid.Accumulator % 2 = 1)

\* RLCA was executed on A = 0
C29_Witness ==
    /\ Handled /\ ~last.panic /\ last.obs.fetched = Instr("AccumulatorFlag", 0, 0)
    /\ last.obs.mid.Accumulator = 0 /\ cpu.Accumulator = 0

\* C30 as stated: BIT n,r sets Z exactly when bit n of the operand is 0, clears
\* N, sets H, and leaves C and the operand as they were, for the registers and
\* for the byte at HL.
C30_Original ==
    (Handled /\ last.obs.fetched.op = "Bit")
        => /\ ~last.panic
           /\ get_flag(cpu, "Z") = ((Operand \div (2 ^ last.obs.fetched.a)) % 2 = 0)
           /\ ~get_flag(cpu, "N") /\ get_flag(cpu, "H")
           /\ get_flag(cpu, "C") = get_flag(last.obs.mid, "C")
           /\ read_register(cpu, bus, last.obs.fetched.b) = Operand

\* BIT 7,(HL) was executed on 0x80
C30_Witness ==
    /\ Handled /\ ~last.panic /\ last.obs.fetched = Instr("Bit", 7, 6)
    /\ Operand = 128 /\ get_u8(bus, 49152) = 128

\* v with bit n set (on) or clear
WithBit(v, n, on) == v - ((v \div (2 ^ n)) % 2) * (2 ^ n) + (IF on THEN 2 ^ n ELSE 0)

\* the CPU and the operand byte in memory that SET or RES on register r, with
\* the operand's new value w, has to leave
OnlyOperandChanged(r, w) ==
    IF r = 6 THEN cpu = last.obs.mid /\ get_u8(bus, 49152) = w
    ELSE cpu = [last.obs.mid EXCEPT ![Reg8Field(r)] = w] /\ get_u8(bus, 49152) = Operand

\* C31 as stated: SET n,r and RES n,r change bit n of their operand and nothing
\* else, the byte at HL when the operand is (HL); the flags, the other
\* registers and the memory stay as they were.
C31_Original ==
    (Handled /\ last.kind = "cpu" /\ last.obs.fetched.op \in {"SetBit", "ResetBit"})
        => /\ ~last.panic
           /\ OnlyOperandChanged(last.obs.fetched.b,
                                 WithBit(Operand, last.obs.fetched.a,
                                         last.obs.fetched.op = "SetBit"))

\* SET 0,(HL) was executed on a byte 0x80
C31_Witness ==
    /\ Handled /\ ~last.panic /\ last.obs.fetched = Instr("SetBit", 0, 6)
    /\ Operand = 128 /\ ~get_flag(cpu, "Z")

\* the carry the instruction found
CarryIn == (last.obs.mid.Flags \div 16) % 2

\* C33 as stated: ADC A,x stores (A + x + Cin) mod 256 in A, sets Z from the
\* result, clears N, sets H exactly when (A & 0xF) + (x & 0xF) + Cin > 0xF and
\* C exactly when A + x + Cin > 0xFF, for every A, x and carry Cin.
C33_Original ==
    (Handled /\ last.obs.fetched = Instr("Alu", 1, 0))
        => /\ ~last.panic
           /\ cpu.Accumulator = (last.obs.mid.Accumulator + Operand + CarryIn) % 256
           /\ get_flag(cpu, "Z") = (cpu.Accumulator = 0)
           /\ ~get_flag(cpu, "N")
           /\ get_flag(cpu, "H")
                = ((last.obs.mid.Accumulator % 16) + (Operand % 16) + CarryIn > 15)
           /\ get_flag(cpu, "C") = (last.obs.mid.Accumulator + Operand + CarryIn > 255)

\* the tick executed ADC A,B on A = 0xFF, B = 0 with the carry set
C33_Witness ==
    /\ Handled /\ last.kind = "cpu" /\ ~last.panic /\ last.obs.fetched = Instr("Alu", 1, 0)
    /\ last.obs.mid.Accumulator = 255 /\ Operand = 0 /\ CarryIn = 1
    /\ cpu.Accumulator = 0

------------------------------------------------------------------------------
(* Decimal arithmetic: A and B hold BCD bytes, the ROM holds ADD A,B or      *)
(* SUB B followed by DAA. The two instructions are executed by CPU::tick,    *)
(* or handed to the handler of cpu/alu.rs.                                   *)

MaxBcdSteps == 2

\* the BCD byte of a number below 100, and the number of a BCD byte
Bcd(n) == (n \div 10) * 16 + (n % 10)

BcdValue(x) == (x \div 16) * 10 + (x % 16)

\* ADD A,B; DAA and SUB B; DAA
BcdPrograms == {<<128, 39>>, <<144, 39>>}

\* A holds the first operand, and D as well, which the programs do not change
BcdCpu(a, b) == [CPU_default EXCEPT !.Accumulator = a, !.D = a, !.B = b]

InitBcd ==
    \E p \in BcdPrograms, m \in 0 .. 99, n \in 0 .. 99, bld \in Builds :
        InitAll(BcdCpu(Bcd(m), Bcd(n)), MemoryBus_new(Place(Empty, 256, p)), bld, NoTick)

\* CPU::tick on the two instructions
BcdTick == hist.ticks < MaxBcdSteps /\ hist.requests = 0 /\ CpuTick

\* handle_instruction of cpu/alu.rs on the two instructions
BcdHandleInstruction ==
    /\ emu.pc # "panicked"
    /\ hist.ticks = 0 /\ hist.requests < MaxBcdSteps
    /\ AluHandles(next_instruction(cpu, bus, build))

NextBcd == BcdTick \/ BcdHandleInstruction

SpecBcd == InitBcd /\ [][NextBcd]_vars

\* the DAA of the program went through to tick's match, or to the handler
DaaHandled ==
    /\ last.kind \in {"cpu", "alu"} /\ last.obs.hi = 0 /\ ~last.obs.mid.halted
    /\ last.entry.PC = 257 /\ last.obs.fetched = Instr("AccumulatorFlag", 4, 0)

\* the sum or difference the program has to leave, with 100 added to a
\* negative difference, and whether it carried or borrowed
BcdExpected ==
    IF get_u8(bus, 256) = 128 THEN BcdValue(cpu.D) + BcdValue(cpu.B)
    ELSE BcdValue(cpu.D) + 100 - BcdValue(cpu.B)

BcdCarry ==
    IF get_u8(bus, 256) = 128 THEN BcdValue(cpu.D) + BcdValue(cpu.B) >= 100
    ELSE BcdValue(cpu.D) < BcdValue(cpu.B)

\* C32 as stated: for BCD bytes a and b, ADD A,b and then DAA leaves in A the
\* BCD byte of (a + b) mod 100 with C set exactly when a + b >= 100, and
\* SUB b and then DAA the BCD byte of (a - b) mod 100 with C set exactly when
\* a < b; H is clear and Z is set exactly when the result is 0.
C32_Original ==
    DaaHandled
        => /\ ~last.panic
           /\ cpu.Accumulator = Bcd(BcdExpected % 100)
           /\ get_flag(cpu, "C") = BcdCarry
           /\ ~get_flag(cpu, "H")
           /\ get_flag(cpu, "Z") = (BcdExpected % 100 = 0)

\* tick reached the DAA after ADD A,B on 0x19 and 0x28
C32_Witness ==
    /\ DaaHandled /\ last.kind = "cpu" /\ cpu.D = 25 /\ cpu.B = 40
    /\ get_u8(bus, 256) = 128 /\ last.obs.mid.Accumulator = 65

------------------------------------------------------------------------------
(* The interrupt registers written with bytes that have bits above 4 set:    *)
(* the programs of SpecCPU, with such bytes stored to IE and IF.             *)

IrqHighBytes == {32, 224, 228, 240, 255}

HighRomParams ==
    [ie : IrqHighBytes, rq : IrqHighBytes, sp : {65534}, ei : BOOLEAN, halt : BOOLEAN]

InitIrq == \E prm \in HighRomParams, bld \in Builds : InitWith(IrqRom(prm), bld)

SpecIrq == InitIrq /\ [][NextCPU]_vars

\* the last tick ended in handle_interrupt's unreachable!(): it was entered
\* with IME set, which handle_interrupt cleared, and dispatched nothing
InvalidInterruptHit ==
    /\ last.kind = "cpu" /\ last.panic
    /\ last.entry.IME /\ ~last.obs.mid.IME /\ last.obs.hi = 0

\* C35: whatever bytes the program wrote to IF and IE, the assertion on the
\* line selected is never hit, and a dispatch selects a line n in 0..4 (PC
\* becomes 0x40 + 8n).
C35_DispatchLine ==
    /\ ~InvalidInterruptHit
    /\ (last.kind = "cpu" /\ last.obs.hi = 4)
            => last.obs.mid.PC \in {64 + 8 * n : n \in 0 .. 4}

\* the program stored 0xE4 to IE and 0xFF to IF, and line 2 was dispatched
C35_Witness ==
    /\ last.kind = "cpu" /\ ~last.panic /\ last.obs.hi = 4
    /\ get_u8(bus, 260) = 228 /\ cpu.Accumulator = 255
    /\ last.obs.mid.PC = 80
    /\ get_u8(bus, IE_REG) = 4 /\ get_u8(bus, IF_REG) = 27

------------------------------------------------------------------------------
(* The background.  The program switched the LCD off with its first          *)
(* instruction, filled the video RAM, set the scroll registers, the palette  *)
(* and LCDC, and the PPU then draws the first lines, while the program       *)
(* writes a scroll register or the palette once more.                        *)

MaxBgLines == 2

\* the video RAM: tile data in 0x8000 .. 0x97FF, the two tile maps above it
VramImage ==
    [a \in 0 .. 8191 |->
        IF a < 6144 THEN (a * 37 + (a \div 16) * 11 + (a \div 256) * 5 + 3) % 256
        ELSE (a * 7 + (a \div 32) * 29 + (a \div 1024) * 101) % 256]

BgControls == {145, 129, 137, 144}

BgScrolls == {3, 250}

BgBus(lcdc, scx, scy, bgp) ==
    [MemoryBus_new(Empty) EXCEPT
        !.vram = VramImage,
        !.lcd = [@ EXCEPT !.lcd_control = lcdc, !.scroll_x = scx, !.scroll_y = scy,
                          !.background_pallete = bgp]]

InitBg ==
    \E lcdc \in BgControls, scx \in BgScrolls, scy \in BgScrolls, bld \in Builds :
        InitAll(CPU_default, BgBus(lcdc, scx, scy, 27), bld, NoTick)

BgTick == PpuTickWithin({152, LineCycles}, MaxBgLines * LineCycles)

BgWrite ==
    \E addr \in {SCROLL_X, SCROLL_Y, PALLETE} :
        /\ emu.pc # "panicked"
        /\ hist.requests = 0
        /\ BusOpEffect(write_u8(bus, addr, 114), "write", addr, 114, FALSE)

NextBg == BgTick \/ BgWrite

SpecBg == InitBg /\ [][NextBg]_vars

\* the lines the last call of PPU::tick rendered
LinesDrawn ==
    IF last.kind = "ppu"
    THEN {last.events[i].ly : i \in {j \in DOMAIN last.events : last.events[j].mode = 0}}
    ELSE {}

\* the tile id at the background position (px, py)
BgTileId(px, py) ==
    get_u8(bus, (IF get_bit(get_u8(bus, LCDC), 3) THEN 39936 ELSE 38912)
                + (py \div 8) * 32 + px \div 8)

\* where the row py of the tile id starts
BgTileRow(id, py) ==
    (IF get_bit(get_u8(bus, LCDC), 4) THEN 32768 + id * 16
     ELSE 36864 + (IF id >= 128 THEN id - 256 ELSE id) * 16) + (py % 8) * 2

\* the 2-bit colour at the background position (px, py)
BgColour(px, py) ==
    2 * ((get_u8(bus, BgTileRow(BgTileId(px, py), py) + 1) \div Pow2(7 - (px % 8))) % 2)
    + ((get_u8(bus, BgTileRow(BgTileId(px, py), py)) \div Pow2(7 - (px % 8))) % 2)

\* the gray of the BGP shade of a colour
BgGray(colour) == <<255, 192, 95, 0>>[((get_u8(bus, PALLETE) \div Pow2(2 * colour)) % 4) + 1]

\* C34: a line rendered with LCDC bit 0 set holds, at every x, the gray of
\* the BGP shade of the colour at ((SCX + x) mod 256, (SCY + LY) mod 256),
\* with the tile id read from the map LCDC bit 3 selects and the tile row
\* from 0x8000 + id*16 or 0x9000 + signed(id)*16 as LCDC bit 4 says.
C34_Background ==
    \A ly \in LinesDrawn :
        (ly < 144 /\ get_bit(get_u8(bus, LCDC), 0)) =>
            \A x \in 0 .. GAMEBOY_WIDTH - 1 :
                FramePixel(buffers[get_off(curr_buffer)], ly * GAMEBOY_WIDTH + x)
                    = BgGray(BgColour((get_u8(bus, SCROLL_X) + x) % 256,
                                      (get_u8(bus, SCROLL_Y) + ly) % 256))

\* line 1 was rendered with signed tile addressing from the map at 0x9C00,
\* scrolled so that the line wraps around the right edge of the background:
\* it holds a black pixel of a tile with an id above 127, and a dark gray one
\* past the wrap
C34_Witness ==
    /\ 1 \in LinesDrawn
    /\ get_u8(bus, LCDC) = 137 /\ get_u8(bus, SCROLL_X) = 250 /\ get_u8(bus, SCROLL_Y) = 114
    /\ \E x \in 0 .. GAMEBOY_WIDTH - 1 :
        /\ BgTileId((250 + x) % 256, 115) >= 128
        /\ FramePixel(buffers[get_off(curr_buffer)], GAMEBOY_WIDTH + x) = 0
    /\ \E x \in 6 .. GAMEBOY_WIDTH - 1 :
        FramePixel(buffers[get_off(curr_buffer)], GAMEBOY_WIDTH + x) = 95

------------------------------------------------------------------------------
(* The end of a frame.  The PPU draws the lines of a frame and goes on into  *)
(* the vertical blank; from the last visible line on the program switches    *)
(* the LCD off and on.                                                       *)

MaxBlankLines == 3

FrameEndTick ==
    PpuTickWithin({152, LineCycles}, (GAMEBOY_HEIGHT - 1 + MaxBlankLines) * LineCycles)

SwitchLCD == hist.credited >= (GAMEBOY_HEIGHT - 1) * LineCycles /\ WriteLCDC

NextFrameEnd == FrameEndTick \/ SwitchLCD

SpecFrameEnd == InitPPU /\ [][NextFrameEnd]_vars

\* the mode the PPU was in before it entered the i-th mode of a call
ModeBefore(prev, events, i) == IF i = 1 THEN prev ELSE events[i - 1].mode

\* on the visible lines mode 2 is entered from a blank, mode 3 from mode 2 and
\* mode 0 from mode 3
ModesInOrder(prev, events) ==
    \A i \in DOMAIN events :
        events[i].ly < GAMEBOY_HEIGHT =>
            /\ events[i].mode = 2 => ModeBefore(prev, events, i) \in {0, 1}
            /\ events[i].mode = 3 => ModeBefore(prev, events, i) = 2
            /\ events[i].mode = 0 => ModeBefore(prev, events, i) = 3

\* how often a call rendered the line ly
TimesRendered(events, ly) ==
    Cardinality({i \in DOMAIN events : events[i].mode = 0 /\ events[i].ly = ly})

\* C36 (as claimed): a visible line is rendered exactly once before LY
\* advances, its modes entered in the order 2, 3, 0, also after the program
\* switched the LCD off and on.
C36_Original ==
    [][(PpuTicked /\ get_bit(get_u8(bus, LCDC), 7)) =>
        /\ ModesInOrder(ppu.mode, last'.events)
        /\ (get_u8(bus, LCD_Y) < GAMEBOY_HEIGHT /\ get_u8(bus', LCD_Y) # get_u8(bus, LCD_Y))
             => TimesRendered(last'.events, get_u8(bus, LCD_Y))
                    + (IF ppu.mode = 0 /\ ppu.mode_clock > 252 THEN 1 ELSE 0) = 1]_vars

\* the LCD was switched off and on during the vertical blank, and line 0 was
\* rendered by the next call without mode 2 or mode 3 having been entered
C36_Witness ==
    /\ last.kind = "ppu" /\ Len(last.events) >= 1
    /\ last.events[1] = [mode |-> 0, ly |-> 0]
    /\ hist.entered1 = 1
    /\ get_bit(get_u8(bus, LCDC), 7)

------------------------------------------------------------------------------
(* The program writes LY.  The emulator thread runs a ROM that stores a byte *)
(* to 0xFF44 and then loops on the spot, while the PPU is credited the       *)
(* T-cycles of every instruction.                                            *)

MaxLyTicks == 42

LyBytes == {143, 153, 154, 200, 255}

\* LD A,v; LDH (0x44),A; JR -2
LyProgram(v) == Place(Empty, 256, <<62, v, 224, 68, 24, 254>>)

InitLy == \E v \in LyBytes, bld \in Builds : InitWith(LyProgram(v), bld)

LyTick == hist.ticks < MaxLyTicks /\ EmuTick

NextLy == EmuLock \/ LyTick

SpecLy == InitLy /\ [][NextLy]_vars

\* the PPU's lcd_y + 1 overflowed: the turn ended in a panic with LY at 255
LineOverflowed ==
    last.kind = "emu" /\ last.panic /\ last.ret # PANIC /\ get_u8(bus, LCD_Y) = 255

\* C37 (as claimed): LY is in 0..153 whatever the program writes to 0xFF44,
\* the PPU's line increment never overflows, and no line outside the 144 rows
\* of the frame buffer is rendered.
C37_Original ==
    /\ get_u8(bus, LCD_Y) \in 0 .. LinesPerFrame - 1
    /\ ~LineOverflowed
    /\ last.kind = "emu" =>
            \A i \in DOMAIN last.events :
                last.events[i].mode = 0 => last.events[i].ly < GAMEBOY_HEIGHT

\* the program stored 255 to LY, and the PPU reached the end of the line
C37_Witness ==
    /\ LineOverflowed
    /\ build = "debug" /\ emu.pc = "panicked"
    /\ cpu.Accumulator = 255 /\ hist.credited >= LineCycles

------------------------------------------------------------------------------
(* run for ever: the two threads with no limit on the frames.  Of the counts *)
(* kept of a run only the parity of the turns of the loop is kept, so that a *)
(* thread that goes round for ever goes round the same states.  The ROMs:    *)
(* the loop that ends a frame with every turn, and one that ends a frame and *)
(* then switches the LCD off and loops on the spot.                          *)

\* LD A,143; LDH (0x44),A, 24 times over; XOR A; LDH (0x40),A; JR -2
LcdOffLoop == Unrolled(24) \o <<175, 224, 64, 24, 254>>

LivePrograms == {Place(Empty, 256, QuickLoop), Place(Empty, 256, LcdOffLoop)}

InitLive == \E rom \in LivePrograms, bld \in Builds : InitWith(rom, bld)

\* one turn of while !ppu.updated, as EmuTick, the turns counted modulo 2
LiveTickEffect(r, p) ==
    /\ cpu' = r.cpu
    /\ bus' = p.bus
    /\ ppu' = p.ppu
    /\ buffers' = [buffers EXCEPT ![emu.off] = p.fb]
    /\ last' = [kind |-> "emu", entry |-> EntryOf(cpu, bus), ret |-> r.ret,
                panic |-> p.panic, obs |-> r.obs, events |-> p.events, t |-> 0]
    /\ emu' = IF p.panic THEN [emu EXCEPT !.pc = "panicked"] ELSE emu
    /\ holder' = IF p.panic THEN [holder EXCEPT ![emu.off] = "none"] ELSE holder
    /\ poisoned' = IF p.panic THEN [poisoned EXCEPT ![emu.off] = TRUE] ELSE poisoned
    /\ hist' = [hist EXCEPT
                  !.ticks = 1 - @,
                  !.stamp[emu.off] = IF Rendered(p.events) \/ CountMode1(p.events) >= 1
                                     THEN [frame |-> 1, done |-> p.ppu.updated]
                                     ELSE @]

LiveTick ==
    /\ emu.pc = "run"
    /\ ~ppu.updated
    /\ \E r \in {tick(cpu, bus, build)} : \E p \in {EmuPpuTick(r)} : LiveTickEffect(r, p)
    /\ UNCHANGED <<curr_buffer, rend, build>>

\* buffer.swap(), as EmuSwap, the counts of the run apart
LiveSwap ==
    /\ emu.pc = "swap"
    /\ curr_buffer' = swap(curr_buffer)
    /\ emu' = [emu EXCEPT !.pc = "recv"]
    /\ rend' = IF rend.pc \in {"read", "unlock"} /\ rend.swaps < MaxSwaps
               THEN [rend EXCEPT !.swaps = @ + 1] ELSE rend
    /\ UNCHANGED <<cpu, bus, ppu, buffers, holder, poisoned, build, last, hist>>

\* the emulator thread and the render calls
LiveEmu == EmuLock \/ LiveTick \/ EmuDrop \/ LiveSwap \/ EmuRecv

LiveRend == RendLoad \/ RendLock \/ RendRead \/ RendUnlock

NextLive == LiveEmu \/ LiveRend

\* LiveTick can be taken: cpu.tick and ppu.tick always come out as something
TickReady == emu.pc = "run" /\ ~ppu.updated

\* the step is a turn of the loop
TickTaken == hist'.ticks # hist.ticks

\* WF_vars(LiveTick), with what ENABLED LiveTick and a step of LiveTick come to
TickFair == []<>~TickReady \/ []<><<TickTaken>>_vars

\* a thread that can take its next step does so in the end: the scheduler
\* starves neither, and a thread that waits for a mutex gets it if the mutex
\* is released again and again
LiveFair ==
    /\ SF_vars(EmuLock) /\ TickFair /\ WF_vars(EmuDrop) /\ WF_vars(LiveSwap)
    /\ WF_vars(EmuRecv)
    /\ WF_vars(RendLoad) /\ SF_vars(RendLock) /\ WF_vars(RendRead) /\ WF_vars(RendUnlock)

SpecLive == InitLive /\ [][NextLive]_vars /\ LiveFair

\* C38 (as claimed): whatever the program, the emulator loop always
\* eventually releases the off buffer and swaps, and a renderer waiting for
\* the lock of the buffer it selected always eventually acquires it.
C38_Original ==
    /\ []<>(emu.pc = "swap")
    /\ (rend.pc = "lock") ~> (rend.pc \in {"read", "panicked"})

\* the LCD is off, the emulator thread is in its loop with the off buffer
\* locked, and the renderer waits for that buffer, which it selected before
\* the swap
C38_Witness ==
    /\ ~get_bit(get_u8(bus, LCDC), 7)
    /\ emu.pc = "run" /\ holder[emu.off] = "emu" /\ last.kind = "emu"
    /\ rend.pc = "lock" /\ rend.idx = emu.off

------------------------------------------------------------------------------
(* HALT under run.  The ROM sets SP, enables the VBlank interrupt in IE,     *)
(* moves LY to the last visible line, so that the vertical blank is a line   *)
(* away, and halts, with IME set or not.  What follows HALT in the ROM is    *)
(* either NOPs and then the loop that ends a frame with every turn, or two   *)
(* NOPs and the undefined opcode 0xD3; the VBlank handler at 0x0040 is that  *)
(* loop too.                                                                 *)

\* NOP, n times over
Sled(n) == [i \in 1 .. n |-> 0]

\* LD SP,0xFFFE; LD A,1; LDH (0xFF),A; LD A,143; LDH (0x44),A; [EI]; HALT
HaltProgram(ei, after) ==
    Place(Place(Empty, 64, QuickLoop), 256,
          <<49, 254, 255, 62, 1, 224, 255, 62, 143, 224, 68>>
              \o (IF ei THEN <<251>> ELSE <<>>) \o <<118>> \o after)

HaltPrograms == {HaltProgram(ei, after) : ei \in BOOLEAN, after \in {Sled(130) \o QuickLoop, <<0, 0, 211>>}}

InitHalt == \E rom \in HaltPrograms, bld \in Builds : InitWith(rom, bld)

SpecHalt == InitHalt /\ [][NextLive]_vars /\ LiveFair

\* the CPU is halted with the LCD on and the VBlank interrupt enabled
HaltedArmed ==
    cpu.halted /\ get_bit(get_u8(bus, LCDC), 7) /\ get_bit(get_u8(bus, IE_REG), 0)

\* C39 (as claimed): a CPU halted with the LCD on and VBlank enabled in IE
\* leaves the halted state in the end, and until then PC stays where it is.
C39_Original ==
    /\ HaltedArmed ~> ~cpu.halted
    /\ [][(HaltedArmed /\ cpu'.halted) => cpu'.PC = cpu.PC]_vars

\* a turn of the loop found the CPU halted and left it halted, with PC moved on
C39_Witness ==
    /\ HaltedArmed
    /\ last.kind = "emu" /\ last.entry.halted /\ last.ret = 1
    /\ cpu.PC # last.entry.PC

------------------------------------------------------------------------------
(* Requests during a handler.  The ROM sets SP, enables all five lines in    *)
(* IE, sets IME and idles; the handler at every vector is NOP, NOP, RETI, or *)
(* EI, NOP, NOP, RET, or an idle loop; devices request lines between the     *)
(* ticks.                                                                    *)

MaxRequests == 3

Handlers == {<<0, 0, 217>>, <<251, 0, 0, 201>>, <<0, 24, 253>>}

RECURSIVE PlaceAtVectors(_, _, _)
PlaceAtVectors(rom, handler, n) ==
    IF n < 0 THEN rom ELSE PlaceAtVectors(Place(rom, 64 + 8 * n, handler), handler, n - 1)

\* LD SP,0xFFFE; LD A,0x1F; LDH (0xFF),A; EI; NOP; JR -3
NestRom(handler) ==
    Place(PlaceAtVectors(Empty, handler, 4), 256,
          <<49, 254, 255, 62, 31, 224, 255, 251, 0, 24, 253>>)

InitNest == \E handler \in Handlers, bld \in Builds : InitWith(NestRom(handler), bld)

\* a device requests a line (VBlank, Timer or Joypad) between two ticks
RequestLine ==
    \E n \in {0, 2, 4} :
        /\ emu.pc # "panicked"
        /\ hist.requests < MaxRequests
        /\ bus' = request_interrupt(bus, n)
        /\ hist' = [hist EXCEPT !.requests = @ + 1]
        /\ UNCHANGED <<cpu, ppu, buffers, curr_buffer, holder, poisoned, emu, rend, build,
                       last>>

NextNest == CpuTick \/ RequestLine

SpecNest == InitNest /\ [][NextNest]_vars

\* the lines requested in IF
Requested(b) == {n \in Lines : get_bit(get_u8(b, IF_REG), n)}

\* C40: an interrupt is dispatched only with IME set, and the dispatch clears
\* IME; IME is set again only by a tick that executes EI or RETI; and while
\* IME is clear no request in IF is lost, whatever is requested meanwhile.
C40_NoNestedDispatch ==
    [][/\ CpuTicked =>
            /\ last'.obs.hi = 4 => (cpu.IME /\ ~last'.obs.mid.IME /\ ~cpu'.IME)
            /\ (~cpu.IME /\ cpu'.IME) =>
                    /\ last'.obs.hi = 0
                    /\ last'.obs.fetched.op \in {"EnableInterrupts", "RetInterrupt"}
            /\ ~cpu.IME => Requested(bus) \subseteq Requested(bus')
       /\ ~CpuTicked => (cpu'.IME = cpu.IME /\ Requested(bus) \subseteq Requested(bus'))]_vars

\* after a dispatch, in the handler with IME clear, two more lines are
\* requested and enabled, and the tick executed the handler's next instruction
C40_Witness ==
    /\ last.kind = "cpu" /\ ~last.panic /\ last.obs.hi = 0
    /\ ~last.entry.IME /\ ~cpu.IME
    /\ last.entry.PC \in 64 .. 103 /\ cpu.PC \in 64 .. 103
    /\ Cardinality(PendingNow) = 2
    /\ Cardinality(Pending(last.entry.IF_REG, last.entry.IE_REG)) = 2

=============================================================================
